---------------------------- MODULE Spec2Model ----------------------------
(***************************************************************************)
(* Model of the ProductAI narration pipeline (faris-sait/Clueso):          *)
(*   - the two event segmenters (dom_event_service.group_events_by_step,   *)
(*     rag_service._group_events_into_steps) and the context builder       *)
(*     (rag_service.build_rag_context_from_events);                        *)
(*   - the timing analyzer (script_generation_service.analyze_word_timings)*)
(*   - the sentence chunker (elevenlabs_service.chunk_text_for_tts);       *)
(*   - single-chunk synthesis with retries                                 *)
(*     (elevenlabs_service._generate_single_chunk);                        *)
(*   - speech synthesis of a whole text                                    *)
(*     (elevenlabs_service.generate_voice_from_text), which calls the      *)
(*     chunker and the single-chunk synthesis;                             *)
(*   - script generation                                                   *)
(*     (script_generation_service.generate_product_script), which calls    *)
(*     the timing analyzer and the context builder;                        *)
(*   - the request handler (main.full_process), which calls script         *)
(*     generation, the connectivity probe                                  *)
(*     (elevenlabs_service.test_deepgram_connectivity) and the synthesis.  *)
(* Each component has its own specification (SpecSeg, SpecCtx, SpecTiming, *)
(* SpecChunk, SpecSynth, SpecVoice, SpecScript, SpecPipeline); the         *)
(* variables of the components that a specification does not run stay at   *)
(* their idle values.                                                      *)
(***************************************************************************)
EXTENDS Integers, Sequences, FiniteSets, TLC

VARIABLES
    \* ---- segmenters and context builder
    events,        \* the session's event list (input)
    dom_pc,        \* position in group_events_by_step
    dom_i,         \* its loop index (1-based index of `event` in events)
    dom_steps,     \* its `steps`
    dom_cur,       \* its `current_step`
    rag_pc,        \* position in build_rag_context_from_events
    rag_i,         \* loop index of _group_events_into_steps
    rag_steps,     \* `steps` of _group_events_into_steps
    rag_cur,       \* its `current_step`
    ctx_k,         \* number of steps already rendered by the context builder
    ctx_parts,     \* the step contexts built so far (one list of lines per step)
    \* ---- timing analyzer (analyze_word_timings)
    words,                  \* the word list (input)
    ta_pc,                  \* position in analyze_word_timings
    ta_i,                   \* loop index (1-based index of `current` in words)
    gaps,
    speaking_segments,
    low_confidence_words,
    filler_words,
    current_segment,
    analysis,               \* the returned dictionary (or the exception raised)
    \* ---- sentence chunker (chunk_text_for_tts)
    text,                   \* the text to chunk (input)
    ck_pc,                  \* position in chunk_text_for_tts
    sentences,
    ck_i,                   \* index of `sentence` in sentences
    chunks,
    current_chunk,
    ck_result,              \* the returned list of chunks
    \* ---- single-chunk synthesis (_generate_single_chunk)
    syn_pc,                 \* position in _generate_single_chunk
    syn_text,               \* its argument `text`
    attempt,
    last_error,
    session,                \* the requests session: "none", "open", "closed"
    sessions_created,       \* calls of create_session_with_retries
    session_closes,         \* calls of session.close
    requests_made,          \* the outcomes of the session.post calls, in order
    payloads,               \* the "text" of the payload of each of them
    slept,                  \* the arguments of the time.sleep calls, in order
    syn_result,             \* what the call returned or raised
    external_calls,         \* the network calls issued, in order, with their timeouts
    \* ---- synthesis of a whole text (generate_voice_from_text)
    gv_text,                \* the text to speak (input)
    api_key,                \* whether DEEPGRAM_API_KEY is configured
    gv_pc,                  \* position in generate_voice_from_text
    gv_chunks,              \* `chunks`
    gv_i,                   \* index of `chunk` in chunks (1-based, as enumerate)
    all_audio,              \* `all_audio`
    gv_result,              \* what the call returned or raised
    \* ---- script generation (generate_product_script)
    gs_pc,                  \* position in generate_product_script
    generations,            \* the outcomes of the model.generate_content calls
    script_result,          \* the dictionary returned (or the exception raised)
    \* ---- the request handler (full_process)
    payload,                \* the request (input)
    fp_pc,                  \* position in full_process
    fp_session,             \* `session`
    probe_result,           \* what test_deepgram_connectivity returned
    production_script,
    audio_bytes,
    audio_generation_failed,
    files_written,          \* the audio files written, in order
    fp_outcomes             \* the responses of the handler, in order

segVars == <<events, dom_pc, dom_i, dom_steps, dom_cur,
             rag_pc, rag_i, rag_steps, rag_cur, ctx_k, ctx_parts>>

taVars == <<words, ta_pc, ta_i, gaps, speaking_segments, low_confidence_words,
            filler_words, current_segment, analysis>>

ckVars == <<text, ck_pc, sentences, ck_i, chunks, current_chunk, ck_result>>

synVars == <<syn_pc, syn_text, payloads, attempt, last_error, session, sessions_created, session_closes,
             requests_made, slept, syn_result, external_calls>>

gvVars == <<gv_text, api_key, gv_pc, gv_chunks, gv_i, all_audio, gv_result>>

gsVars == <<gs_pc, generations, script_result>>

fpVars == <<payload, fp_pc, fp_session, probe_result, production_script, audio_bytes,
            audio_generation_failed, files_written, fp_outcomes>>

vars == <<segVars, taVars, ckVars, synVars, gvVars, gsVars, fpVars>>

\* what the actions of one component leave unchanged
notSegVars == <<taVars, ckVars, synVars, gvVars, gsVars, fpVars>>
notTaVars == <<segVars, ckVars, synVars, gvVars, gsVars, fpVars>>
notCkVars == <<segVars, taVars, synVars, gvVars, gsVars, fpVars>>
notSynVars == <<segVars, taVars, ckVars, gvVars, gsVars, fpVars>>
notGvVars == <<segVars, taVars, gsVars, fpVars>>

(***************************************************************************)
(* Generic helpers                                                         *)
(***************************************************************************)
SeqsUpTo(S, n) == UNION {[1..k -> S] : k \in 0..n}

RECURSIVE Flatten(_)
Flatten(ss) == IF ss = <<>> THEN <<>> ELSE Head(ss) \o Flatten(Tail(ss))

Last(s) == s[Len(s)]

(***************************************************************************)
(* Bounds of the model                                                     *)
(***************************************************************************)
MaxEvents == 3
MaxWords == 2
MaxRuns == 5
MaxScriptRuns == 5

(***************************************************************************)
(* Events (dom_event_models.InteractionEvent).  A timestamp is an integer  *)
(* number of milliseconds; metadata.scrollPosition is an optional          *)
(* ScrollPosition object; target is an optional EventTarget, of which the  *)
(* fields read by _describe_event are kept ("" stands for None / absent).  *)
(***************************************************************************)
NoScrollPosition == [present |-> FALSE, x |-> 0, y |-> 0]
ScrollPositionAt(x, y) == [present |-> TRUE, x |-> x, y |-> y]

NoTarget == [present |-> FALSE, text |-> "", testid |-> "", tag |-> "", type |-> ""]
TargetOf(label, testid, tag, type) ==
    [present |-> TRUE, text |-> label, testid |-> testid, tag |-> tag, type |-> type]

Event(ts, type, target, value, pos) ==
    [timestamp |-> ts, type |-> type, target |-> target, value |-> value,
     scrollPosition |-> pos]

\* Threshold for step separation (2 seconds of inactivity), local constant of
\* both segmenters.
STEP_THRESHOLD_MS == 2000

(***************************************************************************)
(* group_events_by_step (dom_event_service.py): the steps carry an extra   *)
(* "description" field.                                                    *)
(***************************************************************************)
\* faulty variant: the new step is opened empty, its first event is lost
DomNewStep_Empty(n, event) ==
    [stepNumber |-> n, startTime |-> event.timestamp, endTime |-> event.timestamp,
     events |-> <<>>, description |-> ""]

\* faulty variant: every step is numbered 1
DomNewStep_Unnumbered(n, event) ==
    [stepNumber |-> 1, startTime |-> event.timestamp, endTime |-> event.timestamp,
     events |-> <<event>>, description |-> ""]

DomNewStep(n, event) ==
    [stepNumber |-> n, startTime |-> event.timestamp, endTime |-> event.timestamp,
     events |-> <<event>>, description |-> ""]

NoDomStep == [stepNumber |-> 0, startTime |-> 0, endTime |-> 0, events |-> <<>>,
              description |-> ""]

\* faulty variant: the step_change test is forgotten: only the time gap splits
DomStartsNewStep_GapOnly(cur, event) ==
    event.timestamp - cur.endTime > STEP_THRESHOLD_MS

\* the loop's condition for closing the current step
DomStartsNewStep(cur, event) ==
    \/ event.timestamp - cur.endTime > STEP_THRESHOLD_MS
    \/ event.type = "step_change"

\* handlers are `async def` with synchronous bodies: one runs to completion
\* before the next starts
NoHandlerRunning == dom_pc \in {"idle", "done"} /\ rag_pc \in {"idle", "done"}

DomStart ==
    /\ dom_pc = "idle"
    /\ NoHandlerRunning
    /\ IF events = <<>>
         THEN /\ dom_pc' = "done"
              /\ dom_steps' = <<>>
              /\ UNCHANGED <<dom_i, dom_cur>>
         ELSE /\ dom_pc' = "loop"
              /\ dom_steps' = <<>>
              /\ dom_cur' = DomNewStep(1, events[1])
              /\ dom_i' = 2
    /\ UNCHANGED <<events, rag_pc, rag_i, rag_steps, rag_cur, ctx_k, ctx_parts, notSegVars>>

DomLoop ==
    /\ dom_pc = "loop"
    /\ dom_i <= Len(events)
    /\ LET event == events[dom_i] IN
         IF DomStartsNewStep(dom_cur, event)
           THEN LET closed == [dom_cur EXCEPT !.endTime = events[dom_i - 1].timestamp]
                    appended == Append(dom_steps, closed)
                IN /\ dom_steps' = appended
                   /\ dom_cur' = DomNewStep(Len(appended) + 1, event)
           ELSE /\ dom_cur' = [dom_cur EXCEPT !.events = Append(@, event),
                                              !.endTime = event.timestamp]
                /\ UNCHANGED dom_steps
    /\ dom_i' = dom_i + 1
    /\ UNCHANGED <<events, dom_pc, rag_pc, rag_i, rag_steps, rag_cur, ctx_k, ctx_parts, notSegVars>>

DomFinish ==
    /\ dom_pc = "loop"
    /\ dom_i > Len(events)
    /\ dom_steps' = IF dom_cur.events # <<>> THEN Append(dom_steps, dom_cur)
                                             ELSE dom_steps
    /\ dom_pc' = "done"
    /\ dom_cur' = NoDomStep
    /\ dom_i' = 0
    /\ UNCHANGED <<events, rag_pc, rag_i, rag_steps, rag_cur, ctx_k, ctx_parts, notSegVars>>

(***************************************************************************)
(* _group_events_into_steps (rag_service.py), called by                    *)
(* build_rag_context_from_events.                                          *)
(***************************************************************************)
RagNewStep(n, event) ==
    [stepNumber |-> n, startTime |-> event.timestamp, endTime |-> event.timestamp,
     events |-> <<event>>]

NoRagStep == [stepNumber |-> 0, startTime |-> 0, endTime |-> 0, events |-> <<>>]

\* faulty variant: >= instead of >: a gap of exactly the threshold splits
RagStartsNewStep_Inclusive(cur, event) ==
    \/ event.timestamp - cur.endTime >= STEP_THRESHOLD_MS
    \/ event.type = "step_change"

RagStartsNewStep(cur, event) ==
    \/ event.timestamp - cur.endTime > STEP_THRESHOLD_MS
    \/ event.type = "step_change"

RagStart ==
    /\ rag_pc = "idle"
    /\ NoHandlerRunning
    /\ IF events = <<>>
         THEN /\ rag_pc' = "context"
              /\ rag_steps' = <<>>
              /\ UNCHANGED <<rag_i, rag_cur>>
         ELSE /\ rag_pc' = "loop"
              /\ rag_steps' = <<>>
              /\ rag_cur' = RagNewStep(1, events[1])
              /\ rag_i' = 2
    /\ UNCHANGED <<events, dom_pc, dom_i, dom_steps, dom_cur, ctx_k, ctx_parts, notSegVars>>

RagLoop ==
    /\ rag_pc = "loop"
    /\ rag_i <= Len(events)
    /\ LET event == events[rag_i] IN
         IF RagStartsNewStep(rag_cur, event)
           THEN LET closed == [rag_cur EXCEPT !.endTime = events[rag_i - 1].timestamp]
                    appended == Append(rag_steps, closed)
                IN /\ rag_steps' = appended
                   /\ rag_cur' = RagNewStep(Len(appended) + 1, event)
           ELSE /\ rag_cur' = [rag_cur EXCEPT !.events = Append(@, event),
                                              !.endTime = event.timestamp]
                /\ UNCHANGED rag_steps
    /\ rag_i' = rag_i + 1
    /\ UNCHANGED <<events, dom_pc, dom_i, dom_steps, dom_cur, rag_pc, ctx_k, ctx_parts, notSegVars>>

RagFinish ==
    /\ rag_pc = "loop"
    /\ rag_i > Len(events)
    /\ rag_steps' = IF rag_cur.events # <<>> THEN Append(rag_steps, rag_cur)
                                             ELSE rag_steps
    /\ rag_pc' = "context"
    /\ rag_cur' = NoRagStep
    /\ rag_i' = 0
    /\ UNCHANGED <<events, dom_pc, dom_i, dom_steps, dom_cur, ctx_k, ctx_parts, notSegVars>>

(***************************************************************************)
(* _describe_event (rag_service.py).  A description is a record            *)
(* [text, arg, x, y]: the fixed wording, the interpolated string and, for  *)
(* a scroll, the interpolated position.  None is NoDescription.            *)
(***************************************************************************)
Desc(wording, arg) == [none |-> FALSE, text |-> wording, arg |-> arg, x |-> 0, y |-> 0]
NoDescription == [none |-> TRUE, text |-> "", arg |-> "", x |-> 0, y |-> 0]

\* faulty variant: the position counts only when it is non-zero on some axis
ScrollPositionTruthy_NonZero(pos) == pos.present /\ (pos.x # 0 \/ pos.y # 0)

\* truth value of `event.metadata.scrollPosition`: an Optional[ScrollPosition];
\* a pydantic model object defines neither __bool__ nor __len__, so it is
\* true whenever it is present, whatever its coordinates
ScrollPositionTruthy(pos) == pos.present

DescribeScroll(event) ==
    IF ScrollPositionTruthy(event.scrollPosition)
      THEN [none |-> FALSE, text |-> "Scrolled to position", arg |-> "",
            x |-> event.scrollPosition.x, y |-> event.scrollPosition.y]
      ELSE Desc("Scrolled page", "")

\* event.value[:50] + "..." if len(event.value) > 50: a value is kept by its
\* length class ("" empty, "short" at most 50 characters, "long" more)
DisplayValue(value) == IF value = "long" THEN "long[:50]..." ELSE value

DescribeEvent(event) ==
    CASE event.type = "click" ->
           IF event.target.present /\ event.target.text # ""
             THEN Desc("Clicked on '", event.target.text)
           ELSE IF event.target.present /\ event.target.testid # ""
             THEN Desc("Clicked on", event.target.testid)
           ELSE IF event.target.present /\ event.target.tag # ""
             THEN Desc("Clicked on element", event.target.tag)
           ELSE Desc("Clicked", "")
      [] event.type = "type" ->
           IF event.value # ""
             THEN IF event.target.present /\ event.target.testid # ""
                    THEN Desc("Typed in testid", DisplayValue(event.value))
                  ELSE IF event.target.present /\ event.target.type # ""
                    THEN Desc("Typed in field", DisplayValue(event.value))
                  ELSE Desc("Typed", DisplayValue(event.value))
             ELSE Desc("Typed in input field", "")
      [] event.type = "focus" ->
           IF event.target.present /\ event.target.testid # ""
             THEN Desc("Focused on", event.target.testid)
           ELSE IF event.target.present /\ event.target.type # ""
             THEN Desc("Focused on input field", event.target.type)
           ELSE Desc("Focused on input field", "")
      [] event.type = "blur" -> Desc("Left input field", "")
      [] event.type = "scroll" -> DescribeScroll(event)
      [] event.type = "step_change" -> Desc("Page/UI state changed", "")
      [] OTHER -> NoDescription

\* `if event_desc:` in _build_step_context: None and "" are false
DescTruthy(d) == ~d.none /\ d.text # ""

(***************************************************************************)
(* _build_step_context (rag_service.py): the header line carries the step  *)
(* number and the duration; one line per event whose description is true.  *)
(***************************************************************************)
RECURSIVE ContextLines(_)
ContextLines(evs) ==
    IF evs = <<>> THEN <<>>
    ELSE LET event == Head(evs)
             event_desc == DescribeEvent(event)
         IN (IF DescTruthy(event_desc)
               THEN <<[timestamp |-> event.timestamp, desc |-> event_desc]>>
               ELSE <<>>) \o ContextLines(Tail(evs))

BuildStepContext(step_num, step) ==
    [step_num |-> step_num,
     duration_ms |-> step.endTime - step.startTime,
     lines |-> ContextLines(step.events)]

\* one iteration of `for step_num, step in enumerate(steps, 1)` in
\* build_rag_context_from_events
CtxStep ==
    /\ rag_pc = "context"
    /\ ctx_k < Len(rag_steps)
    /\ ctx_parts' = Append(ctx_parts, BuildStepContext(ctx_k + 1, rag_steps[ctx_k + 1]))
    /\ ctx_k' = ctx_k + 1
    /\ UNCHANGED <<events, dom_pc, dom_i, dom_steps, dom_cur,
                   rag_pc, rag_i, rag_steps, rag_cur, notSegVars>>

CtxReturn ==
    /\ rag_pc = "context"
    /\ ctx_k >= Len(rag_steps)
    /\ rag_pc' = "done"
    /\ UNCHANGED <<events, dom_pc, dom_i, dom_steps, dom_cur,
                   rag_i, rag_steps, rag_cur, ctx_k, ctx_parts, notSegVars>>

(***************************************************************************)
(* analyze_word_timings (script_generation_service.py).                    *)
(*                                                                         *)
(* Times are floats in the code.  The model keeps them as integer numbers  *)
(* of quarter seconds: quarters are exact binary fractions, so the code's  *)
(* float subtraction is exact on them and the comparisons with 0.3, 0.5    *)
(* and 0.8 are decided as on the exact values.  A confidence is an integer *)
(* number of hundredths.  A word is [word, start, end, confidence]; its    *)
(* punctuated_word is the word itself.  A quotient `a / b` is kept as the  *)
(* fraction [num, den].                                                    *)
(***************************************************************************)
Word(w, start, end, confidence) ==
    [word |-> w, start |-> start, end |-> end, confidence |-> confidence]

\* d quarter seconds > tenths / 10 seconds
ExceedsTenths(d, tenths) == 10 * d > 4 * tenths

FILLER_PATTERNS ==
    {"um", "uh", "like", "you know", "so", "well", "actually", "basically"}

\* str.lower() on the vocabulary of the model
Lower(w) == CASE w = "Um" -> "um" [] w = "The" -> "the" [] OTHER -> w

\* `current.get("confidence", 1.0) < 0.8`
IsLowConfidence(w) == w.confidence < 80

\* faulty variant: >= instead of > in the classification
GapType_Inclusive(gap_duration) ==
    IF ExceedsTenths(gap_duration, 8) \/ 10 * gap_duration = 4 * 8 THEN "major"
    ELSE IF ExceedsTenths(gap_duration, 5) \/ 10 * gap_duration = 4 * 5 THEN "natural"
    ELSE "minor"

\* "major" if gap_duration > 0.8 else "natural" if gap_duration > 0.5 else "minor"
GapType(gap_duration) ==
    IF ExceedsTenths(gap_duration, 8) THEN "major"
    ELSE IF ExceedsTenths(gap_duration, 5) THEN "natural"
    ELSE "minor"

\* `if gap_duration > 0.3`
\* faulty variant: the pause threshold is 0.5 s instead of 0.3 s
IsSignificantGap_Half(gap_duration) == ExceedsTenths(gap_duration, 5)

\* `if gap_duration > 0.3`
IsSignificantGap(gap_duration) == ExceedsTenths(gap_duration, 3)

NoSegment == [open |-> FALSE, start |-> 0, end |-> 0, words |-> <<>>, word_count |-> 0]

\* a / b; Python raises ZeroDivisionError when b is 0
Quotient(a, b) ==
    IF b = 0 THEN [error |-> TRUE, num |-> 0, den |-> 1]
             ELSE [error |-> FALSE, num |-> a, den |-> b]
Zero == [error |-> FALSE, num |-> 0, den |-> 1]

RECURSIVE SumDurations(_)
SumDurations(gs) == IF gs = <<>> THEN 0 ELSE Head(gs).duration + SumDurations(Tail(gs))

\* faulty variant: the sum is divided by one more than the number of gaps
AverageGap_OneMore(gs) ==
    IF gs # <<>> THEN Quotient(SumDurations(gs), Len(gs) + 1) ELSE Zero

\* sum(g["duration"] for g in gaps) / len(gaps) if gaps else 0
AverageGap(gs) == IF gs # <<>> THEN Quotient(SumDurations(gs), Len(gs)) ELSE Zero

\* faulty variant: the guard admits a duration of 0
SpeakingRate_GuardAtZero(n, total_duration) ==
    IF total_duration >= 0 THEN Quotient(4 * n, total_duration) ELSE Zero

\* len(words) / total_duration if total_duration > 0 else 0, in words per
\* second (total_duration is in quarter seconds)
SpeakingRate(n, total_duration) ==
    IF total_duration > 0 THEN Quotient(4 * n, total_duration) ELSE Zero

NoAnalysis == [returned |-> FALSE, raised |-> ""]

\* the dictionary returned for an empty word list
EmptyAnalysis ==
    [returned |-> TRUE, raised |-> "", total_duration |-> 0, gaps |-> <<>>,
     average_gap |-> Zero, speaking_segments |-> <<>>, low_confidence_words |-> <<>>,
     filler_words |-> <<>>, speaking_rate |-> Zero, has_timing_data |-> FALSE]

TaStart ==
    /\ ta_pc = "idle"
    /\ gaps' = <<>>
    /\ speaking_segments' = <<>>
    /\ low_confidence_words' = <<>>
    /\ filler_words' = <<>>
    /\ current_segment' = NoSegment
    /\ IF words = <<>>
         THEN /\ analysis' = EmptyAnalysis
              /\ ta_pc' = "done"
              /\ UNCHANGED ta_i
         ELSE /\ ta_pc' = "loop"
              /\ ta_i' = 1
              /\ UNCHANGED analysis
    /\ UNCHANGED <<words, notTaVars>>

\* one iteration of `for i in range(len(words) - 1)`; position is the 0-based i
TaLoop ==
    /\ ta_pc = "loop"
    /\ ta_i <= Len(words) - 1
    /\ LET current == words[ta_i]
           next_word == words[ta_i + 1]
           position == ta_i - 1
           current_end == current.end
           next_start == next_word.start
           gap_duration == next_start - current_end
           fillers1 ==
               IF Lower(current.word) \in FILLER_PATTERNS
                 THEN Append(filler_words,
                             [word |-> current.word, position |-> position,
                              start |-> current.start, type |-> ""])
                 ELSE filler_words
           fillers2 ==
               IF current.word = next_word.word
                 THEN Append(fillers1,
                             [word |-> current.word, position |-> position,
                              start |-> current.start, type |-> "repetition"])
                 ELSE fillers1
       IN /\ low_confidence_words' =
                IF IsLowConfidence(current)
                  THEN Append(low_confidence_words,
                              [word |-> current.word, confidence |-> current.confidence,
                               position |-> position, start |-> current.start])
                  ELSE low_confidence_words
          /\ filler_words' = fillers2
          /\ IF IsSignificantGap(gap_duration)
               THEN /\ gaps' = Append(gaps,
                                 [after_word |-> current.word,
                                  before_word |-> next_word.word,
                                  start |-> current_end, end |-> next_start,
                                  duration |-> gap_duration, position |-> position,
                                  type |-> GapType(gap_duration)])
                    /\ IF current_segment.open
                         THEN /\ speaking_segments' =
                                    Append(speaking_segments,
                                           [current_segment EXCEPT
                                              !.end = current_end,
                                              !.word_count = Len(current_segment.words)])
                              /\ current_segment' = NoSegment
                         ELSE UNCHANGED <<speaking_segments, current_segment>>
               ELSE /\ LET seg == IF ~current_segment.open
                                    THEN [open |-> TRUE, start |-> current.start,
                                          end |-> current_end, words |-> <<>>,
                                          word_count |-> 0]
                                    ELSE current_segment
                       IN current_segment' =
                              [seg EXCEPT !.words = Append(@, current),
                                          !.end = current_end]
                    /\ UNCHANGED <<gaps, speaking_segments>>
    /\ ta_i' = ta_i + 1
    /\ UNCHANGED <<words, ta_pc, analysis, notTaVars>>

\* the final segment, the statistics and the return
TaFinish ==
    /\ ta_pc = "loop"
    /\ ta_i > Len(words) - 1
    /\ LET segments ==
               IF current_segment.open
                 THEN Append(speaking_segments,
                             [current_segment EXCEPT
                                !.end = Last(words).end,
                                !.word_count = Len(current_segment.words)])
                 ELSE speaking_segments
           total_duration == Last(words).end - words[1].start
           average_gap == AverageGap(gaps)
           speaking_rate == SpeakingRate(Len(words), total_duration)
       IN /\ speaking_segments' = segments
          /\ analysis' =
               IF average_gap.error \/ speaking_rate.error
                 THEN [returned |-> FALSE, raised |-> "ZeroDivisionError"]
                 ELSE [returned |-> TRUE, raised |-> "",
                       total_duration |-> total_duration,
                       total_words |-> Len(words),
                       gaps |-> gaps,
                       average_gap |-> average_gap,
                       speaking_segments |-> segments,
                       num_gaps |-> Len(gaps),
                       low_confidence_words |-> low_confidence_words,
                       filler_words |-> filler_words,
                       speaking_rate |-> speaking_rate,
                       has_timing_data |-> TRUE]
    /\ ta_pc' = "done"
    /\ current_segment' = NoSegment
    /\ ta_i' = 0
    /\ UNCHANGED <<words, gaps, low_confidence_words, filler_words, notTaVars>>

(***************************************************************************)
(* chunk_by_sentence and chunk_text_for_tts (elevenlabs_service.py).       *)
(*                                                                         *)
(* A string is kept run-length encoded: a sequence of runs [c, n], n >= 1  *)
(* copies of the character c, where c is "a" (any character that is        *)
(* neither white space nor a sentence terminator), ".", "?" or " ".  The   *)
(* encoding is exact for such strings, and lets the model hold strings     *)
(* around the real chunk size of 1500 characters.                          *)
(***************************************************************************)
Run(c, n) == [c |-> c, n |-> n]
Space == Run(" ", 1)

IsSpaceRun(r) == r.c = " "
\* the character class [.!?] of the split pattern
IsTerminatorRun(r) == r.c \in {".", "!", "?"}

\* len(s)
RECURSIVE StrLen(_)
StrLen(s) == IF s = <<>> THEN 0 ELSE Head(s).n + StrLen(Tail(s))

\* the encoding with adjacent runs of one character merged: two encodings
\* are the same string iff their canonical forms are equal
RECURSIVE Canon(_)
Canon(s) ==
    IF Len(s) <= 1 THEN s
    ELSE LET rest == Canon(Tail(s))
         IN IF Head(s).c = Head(rest).c
              THEN <<Run(Head(s).c, Head(s).n + Head(rest).n)>> \o Tail(rest)
              ELSE <<Head(s)>> \o rest

RECURSIVE LStrip(_)
LStrip(s) == IF s # <<>> /\ IsSpaceRun(Head(s)) THEN LStrip(Tail(s)) ELSE s

RECURSIVE RStrip(_)
RStrip(s) ==
    IF s # <<>> /\ IsSpaceRun(s[Len(s)]) THEN RStrip(SubSeq(s, 1, Len(s) - 1)) ELSE s

\* str.strip()
Strip(s) == RStrip(LStrip(s))

\* re.split(r'(?<=[.!?])\s+', s): a maximal run of white space that follows a
\* terminator separates two pieces; `piece` is the piece being read, `prev`
\* tells whether the character before s[i] is a terminator, `skipping`
\* whether s[i] continues a separator
RECURSIVE SplitFrom(_, _, _, _, _)
SplitFrom(s, i, piece, prev, skipping) ==
    IF i > Len(s) THEN <<piece>>
    ELSE IF IsSpaceRun(s[i]) /\ (prev \/ skipping)
      THEN IF skipping
             THEN SplitFrom(s, i + 1, piece, FALSE, TRUE)
             ELSE <<piece>> \o SplitFrom(s, i + 1, <<>>, FALSE, TRUE)
      ELSE SplitFrom(s, i + 1, Append(piece, s[i]), IsTerminatorRun(s[i]), FALSE)

SplitAfterTerminators(s) == SplitFrom(s, 1, <<>>, FALSE, FALSE)

\* [s.strip() for s in sentences if s.strip()]
RECURSIVE StripNonEmpty(_)
StripNonEmpty(pieces) ==
    IF pieces = <<>> THEN <<>>
    ELSE (IF Strip(Head(pieces)) # <<>> THEN <<Strip(Head(pieces))>> ELSE <<>>)
         \o StripNonEmpty(Tail(pieces))

ChunkBySentence(s) == StripNonEmpty(SplitAfterTerminators(Strip(s)))

\* Max characters per TTS request
MAX_CHUNK_SIZE == 1500

\* faulty variant: the separating space is not counted
Fits_NoSeparator(current, sentence, max_size) ==
    StrLen(current) + StrLen(sentence) <= max_size

\* len(current_chunk) + len(sentence) + 1 <= max_size
Fits(current, sentence, max_size) ==
    StrLen(current) + StrLen(sentence) + 1 <= max_size

\* faulty variant: the sentence is appended without the separating space
JoinChunk_NoSpace(current, sentence) == Strip(current \o sentence)

\* f"{current_chunk} {sentence}".strip()
JoinChunk(current, sentence) == Strip(current \o <<Space>> \o sentence)

CkStart ==
    /\ ck_pc = "idle"
    /\ sentences' = ChunkBySentence(text)
    /\ chunks' = <<>>
    /\ current_chunk' = <<>>
    /\ ck_i' = 1
    /\ ck_pc' = "loop"
    /\ UNCHANGED <<text, ck_result, notCkVars>>

\* one iteration of `for sentence in sentences`
CkLoop ==
    /\ ck_pc = "loop"
    /\ ck_i <= Len(sentences)
    /\ LET sentence == sentences[ck_i] IN
         IF Fits(current_chunk, sentence, MAX_CHUNK_SIZE)
           THEN /\ current_chunk' = JoinChunk(current_chunk, sentence)
                /\ UNCHANGED chunks
           ELSE /\ chunks' = IF current_chunk # <<>> THEN Append(chunks, current_chunk)
                                                     ELSE chunks
                /\ current_chunk' = sentence
    /\ ck_i' = ck_i + 1
    /\ UNCHANGED <<text, sentences, ck_pc, ck_result, notCkVars>>

\* the last chunk and `return chunks if chunks else [text]`
CkFinish ==
    /\ ck_pc = "loop"
    /\ ck_i > Len(sentences)
    /\ LET all == IF current_chunk # <<>> THEN Append(chunks, current_chunk)
                                          ELSE chunks
       IN /\ chunks' = all
          /\ ck_result' = IF all # <<>> THEN all ELSE <<text>>
    /\ ck_pc' = "done"
    /\ current_chunk' = <<>>
    /\ ck_i' = 0
    /\ UNCHANGED <<text, sentences, notCkVars>>

(***************************************************************************)
(* _generate_single_chunk (elevenlabs_service.py): one chunk's synthesis   *)
(* with retries.  The outcome of one `session.post` is                     *)
(*   [kind, size, says_timeout, says_connection]                           *)
(* where kind is "Timeout" (requests.exceptions.Timeout), "RequestError"   *)
(* (another requests.exceptions.RequestException, e.g. a ConnectionError), *)
(* "HttpError" (a response with `not resp.ok`) or "Response" (an ok        *)
(* response whose content has `size` bytes); says_timeout and              *)
(* says_connection tell whether the text of the resulting exception        *)
(* contains "timeout" and "connection" (case-insensitively).               *)
(***************************************************************************)
MAX_RETRIES == 3
RETRY_DELAY == 1
CONNECT_TIMEOUT == 10
READ_TIMEOUT == 45

\* a network call as issued: the service called and the `timeout` argument;
\* explicit is FALSE when the call is made without a timeout argument
TimedCall(service, connect, read) ==
    [service |-> service, explicit |-> TRUE, connect |-> connect, read |-> read]
UntimedCall(service) ==
    [service |-> service, explicit |-> FALSE, connect |-> 0, read |-> 0]

\* `session.post(DEEPGRAM_SPEAK_URL, ..., timeout=(CONNECT_TIMEOUT, READ_TIMEOUT))`
SpeakCall == TimedCall("speak", CONNECT_TIMEOUT, READ_TIMEOUT)
\* `if len(audio_bytes) < 100`
MIN_AUDIO_BYTES == 100

Outcome(kind, size, says_timeout, says_connection) ==
    [kind |-> kind, size |-> size, says_timeout |-> says_timeout,
     says_connection |-> says_connection]

NoError == [kind |-> "None", says_timeout |-> FALSE, says_connection |-> FALSE]

\* the exception caught for an outcome: the library's exception, or the
\* RuntimeError raised in the try block ("Deepgram TTS error <status>:
\* <body>", whose text takes the body's words; "Audio response too small:
\* <n> bytes")
ErrorOf(o) ==
    CASE o.kind = "Timeout" ->
           [kind |-> "Timeout", says_timeout |-> o.says_timeout,
            says_connection |-> o.says_connection]
      [] o.kind = "RequestError" ->
           [kind |-> "RequestError", says_timeout |-> o.says_timeout,
            says_connection |-> o.says_connection]
      [] o.kind = "HttpError" ->
           [kind |-> "RuntimeError(HTTP status)", says_timeout |-> o.says_timeout,
            says_connection |-> o.says_connection]
      [] OTHER ->
           [kind |-> "RuntimeError(too small)", says_timeout |-> FALSE,
            says_connection |-> FALSE]

\* faulty variant: the size check is missing: every ok response is returned
AttemptSucceeds_NoSizeCheck(o) == o.kind = "Response"

\* the try block reaches `return audio_bytes`
AttemptSucceeds(o) == o.kind = "Response" /\ ~(o.size < MIN_AUDIO_BYTES)

\* faulty variant: range(1, MAX_RETRIES): one attempt fewer
LoopContinues_OneFewer(a) == a < MAX_RETRIES

\* `for attempt in range(1, MAX_RETRIES + 1)`
LoopContinues(a) == a < MAX_RETRIES + 1

\* faulty variant: the last failed attempt is followed by a sleep too
SleepsBeforeRetry_Always(a) == a <= MAX_RETRIES

\* `if attempt < MAX_RETRIES`: sleep before the next attempt
SleepsBeforeRetry(a) == a < MAX_RETRIES

\* faulty variant: the session is left open
CloseSession_Forgotten(s, closes) == <<s, closes>>

\* `session.close()`, on the session's state and the count of close calls
CloseSession(s, closes) == <<"closed", closes + 1>>

SynStart(t) ==
    /\ syn_pc = "idle"
    /\ syn_text' = t
    /\ last_error' = NoError
    /\ session' = "open"
    /\ sessions_created' = sessions_created + 1
    /\ attempt' = 1
    /\ syn_pc' = "attempt"
    /\ UNCHANGED <<session_closes, requests_made, payloads, slept, syn_result,
                   external_calls, notSynVars>>

\* one pass through the try block: the request, and either the return or the
\* except clause that records the error
SynPost(o) ==
    /\ syn_pc = "attempt"
    /\ LoopContinues(attempt)
    /\ requests_made' = Append(requests_made, o)
    /\ payloads' = Append(payloads, syn_text)
    /\ external_calls' = Append(external_calls, SpeakCall)
    /\ IF AttemptSucceeds(o)
         THEN /\ session' = CloseSession(session, session_closes)[1]
              /\ session_closes' = CloseSession(session, session_closes)[2]
              /\ syn_result' = [returned |-> TRUE, size |-> o.size,
                                raised |-> "", mentions_attempts |-> FALSE,
                                error |-> NoError]
              /\ syn_pc' = "returned"
              /\ UNCHANGED last_error
         ELSE /\ last_error' = ErrorOf(o)
              /\ syn_pc' = "failed"
              /\ UNCHANGED <<session, session_closes, syn_result>>
    /\ UNCHANGED <<syn_text, attempt, sessions_created, slept, notSynVars>>

\* after the except clause: back off and go to the next iteration
SynBackoff ==
    /\ syn_pc = "failed"
    /\ slept' = IF SleepsBeforeRetry(attempt)
                  THEN Append(slept, RETRY_DELAY * attempt)
                  ELSE slept
    /\ attempt' = attempt + 1
    /\ syn_pc' = "attempt"
    /\ UNCHANGED <<syn_text, payloads, session, sessions_created, session_closes,
                   last_error, requests_made, syn_result, external_calls, notSynVars>>

\* after the loop: close the session and raise
SynGiveUp ==
    /\ syn_pc = "attempt"
    /\ ~LoopContinues(attempt)
    /\ session' = CloseSession(session, session_closes)[1]
    /\ session_closes' = CloseSession(session, session_closes)[2]
    /\ syn_result' =
         IF last_error.says_timeout
           THEN [returned |-> FALSE, size |-> 0, raised |-> "timeout",
                 mentions_attempts |-> TRUE, error |-> last_error]
         ELSE IF last_error.says_connection
           THEN [returned |-> FALSE, size |-> 0, raised |-> "connection",
                 mentions_attempts |-> TRUE, error |-> last_error]
         ELSE [returned |-> FALSE, size |-> 0, raised |-> "last_error",
               mentions_attempts |-> FALSE, error |-> last_error]
    /\ syn_pc' = "raised"
    /\ UNCHANGED <<syn_text, payloads, attempt, sessions_created, last_error,
                   requests_made, slept, external_calls, notSynVars>>

(***************************************************************************)
(* generate_voice_from_text (elevenlabs_service.py).                       *)
(*                                                                         *)
(* Audio bytes are kept as a sequence of blocks [response, n]: n bytes of  *)
(* the content of the response to the request numbered `response` (its     *)
(* index in requests_made).  b"" is the empty sequence and `+` on bytes is *)
(* the concatenation of the sequences.                                     *)
(***************************************************************************)
\* a character matched by \s
IsWhitespaceRun(r) == r.c \in {" ", "\n"}

RECURSIVE DropWhitespace(_)
DropWhitespace(s) ==
    IF s # <<>> /\ IsWhitespaceRun(Head(s)) THEN DropWhitespace(Tail(s)) ELSE s

\* re.sub(r'\s+', ' ', s)
RECURSIVE CollapseWhitespace(_)
CollapseWhitespace(s) ==
    IF s = <<>> THEN <<>>
    ELSE IF IsWhitespaceRun(Head(s))
      THEN <<Space>> \o CollapseWhitespace(DropWhitespace(s))
      ELSE <<Head(s)>> \o CollapseWhitespace(Tail(s))

\* ensure_sentence_endings
EnsureSentenceEndings(s) ==
    LET txt == Strip(CollapseWhitespace(s))
    IN IF txt # <<>> /\ ~IsTerminatorRun(Last(txt))
         THEN Append(txt, Run(".", 1))
         ELSE txt

\* `not text.strip()`: str.strip() removes every kind of white space
IsBlank(s) == DropWhitespace(s) = <<>>

AudioBlock(response, n) == [response |-> response, n |-> n]

\* len() of a bytes value
RECURSIVE BytesLen(_)
BytesLen(b) == IF b = <<>> THEN 0 ELSE Head(b).n + BytesLen(Tail(b))

\* faulty variant: the chunk's audio is put in front of the buffer
AppendAudio_InFront(buffer, chunk_audio) == chunk_audio \o buffer

\* `all_audio += chunk_audio`
AppendAudio(buffer, chunk_audio) == buffer \o chunk_audio

NoVoiceResult == [returned |-> FALSE, audio |-> <<>>, raised |-> ""]
VoiceReturns(audio) == [returned |-> TRUE, audio |-> audio, raised |-> ""]
\* faulty variant: the failure is swallowed and empty bytes are returned
VoiceRaises_Swallowed(what) == [returned |-> TRUE, audio |-> <<>>, raised |-> ""]

VoiceRaises(what) == [returned |-> FALSE, audio |-> <<>>, raised |-> what]

\* the bytes that the _generate_single_chunk call that has just returned
\* gave back: the content of the last response
ReturnedAudio == <<AudioBlock(Len(requests_made), syn_result.size)>>

\* entry, up to the choice between the direct call and the chunking
GvStart ==
    /\ gv_pc = "idle"
    /\ IF IsBlank(gv_text)
         THEN /\ gv_result' = VoiceReturns(<<>>)
              /\ gv_pc' = "done"
              /\ UNCHANGED text
         ELSE IF ~api_key
           THEN /\ gv_result' = VoiceRaises("DEEPGRAM_API_KEY not configured")
                /\ gv_pc' = "done"
                /\ UNCHANGED text
           ELSE /\ text' = EnsureSentenceEndings(gv_text)
                /\ gv_pc' = IF StrLen(text') <= MAX_CHUNK_SIZE THEN "single"
                                                               ELSE "chunking"
                /\ UNCHANGED gv_result
    /\ UNCHANGED <<gv_text, api_key, gv_chunks, gv_i, all_audio>>
    /\ UNCHANGED <<sentences, ck_pc, ck_i, chunks, current_chunk, ck_result>>
    /\ UNCHANGED <<synVars, notGvVars>>

\* `return _generate_single_chunk(text, voice_id)`: the call
GvSingleCall == gv_pc = "single" /\ SynStart(text)

\* ... and its return or its exception, which propagates
GvSingleReturn ==
    /\ gv_pc = "single"
    /\ syn_pc \in {"returned", "raised"}
    /\ gv_result' = IF syn_pc = "returned" THEN VoiceReturns(ReturnedAudio)
                                           ELSE VoiceRaises(syn_result.raised)
    /\ gv_pc' = "done"
    /\ syn_pc' = "idle"
    /\ UNCHANGED <<gv_text, api_key, gv_chunks, gv_i, all_audio>>
    /\ UNCHANGED <<syn_text, payloads, attempt, last_error, session, sessions_created,
                   session_closes, requests_made, slept, syn_result, external_calls>>
    /\ UNCHANGED <<ckVars, notGvVars>>

\* `chunks = chunk_text_for_tts(text)`: the call
GvChunkCall == gv_pc = "chunking" /\ CkStart

\* ... its return, and `all_audio = b""`
GvChunked ==
    /\ gv_pc = "chunking"
    /\ ck_pc = "done"
    /\ gv_chunks' = ck_result
    /\ all_audio' = <<>>
    /\ gv_i' = 1
    /\ gv_pc' = "loop"
    /\ UNCHANGED <<gv_text, api_key, gv_result>>
    /\ UNCHANGED <<ckVars, synVars, notGvVars>>

\* faulty variant: every iteration sends the first chunk
ChunkOf_First(cs, i) == cs[1]

\* `chunk` in the iteration numbered i of `for i, chunk in enumerate(chunks, 1)`
ChunkOf(cs, i) == cs[i]

\* one iteration of `for i, chunk in enumerate(chunks, 1)`: the call of
\* _generate_single_chunk
GvLoopCall == gv_pc = "loop" /\ gv_i <= Len(gv_chunks) /\ SynStart(ChunkOf(gv_chunks, gv_i))

\* ... and `all_audio += chunk_audio`, or the exception, which propagates
GvLoopReturn ==
    /\ gv_pc = "loop"
    /\ syn_pc \in {"returned", "raised"}
    /\ IF syn_pc = "returned"
         THEN /\ all_audio' = AppendAudio(all_audio, ReturnedAudio)
              /\ gv_i' = gv_i + 1
              /\ UNCHANGED <<gv_pc, gv_result>>
         ELSE /\ gv_result' = VoiceRaises(syn_result.raised)
              /\ gv_pc' = "done"
              /\ UNCHANGED <<all_audio, gv_i>>
    /\ syn_pc' = "idle"
    /\ UNCHANGED <<gv_text, api_key, gv_chunks>>
    /\ UNCHANGED <<syn_text, payloads, attempt, last_error, session, sessions_created,
                   session_closes, requests_made, slept, syn_result, external_calls>>
    /\ UNCHANGED <<ckVars, notGvVars>>

\* `return all_audio`
GvReturn ==
    /\ gv_pc = "loop"
    /\ syn_pc = "idle"
    /\ gv_i > Len(gv_chunks)
    /\ gv_result' = VoiceReturns(all_audio)
    /\ gv_pc' = "done"
    /\ UNCHANGED <<gv_text, api_key, gv_chunks, gv_i, all_audio>>
    /\ UNCHANGED <<ckVars, synVars, notGvVars>>

(***************************************************************************)
(* _clean_script_output (script_generation_service.py), on run-length      *)
(* encoded strings whose characters are "a", ".", "?", ",", " ", the       *)
(* newline and "*".                                                        *)
(***************************************************************************)
\* faulty variant: only the pairs "**" are removed, a single "*" stays
RemoveStars_PairsOnly(s) ==
    Canon(SelectSeq([i \in 1..Len(s) |->
                        IF s[i].c = "*" THEN Run("*", s[i].n % 2) ELSE s[i]],
                    LAMBDA r : r.n > 0))

\* re.sub(r"\*\*", "", text) followed by re.sub(r"\*", "", text)
RemoveStars(s) == Canon(SelectSeq(s, LAMBDA r : r.c # "*"))

\* text.replace("\n", " ")
ReplaceNewlines(s) ==
    Canon([i \in 1..Len(s) |-> IF s[i].c = "\n" THEN Run(" ", s[i].n) ELSE s[i]])

IsPunctuationRun(r) == r.c \in {".", ",", "!", "?"}

\* re.sub(r"\s+([.,!?])", r"\1", text)
RECURSIVE DropSpaceBeforePunctuation(_)
DropSpaceBeforePunctuation(s) ==
    IF s = <<>> THEN <<>>
    ELSE IF IsWhitespaceRun(Head(s)) /\ Len(s) >= 2 /\ IsPunctuationRun(s[2])
      THEN DropSpaceBeforePunctuation(Tail(s))
      ELSE <<Head(s)>> \o DropSpaceBeforePunctuation(Tail(s))

CleanScriptOutput(s) ==
    IF s = <<>> THEN <<>>
    ELSE Strip(Canon(DropSpaceBeforePunctuation(
             CollapseWhitespace(ReplaceNewlines(RemoveStars(s))))))

(***************************************************************************)
(* generate_product_script (script_generation_service.py).                 *)
(*                                                                         *)
(* A recording session is [present, sessionId, events]; None is NoSession. *)
(* The outcome of `model.generate_content(prompt)` followed by             *)
(* `response.text` is [ok, text, error]: the generated text, or the text   *)
(* of the exception raised.  The prompt is not kept: it only reaches the   *)
(* remote model.  A returned dictionary is kept with one flag per optional *)
(* key (has_script, has_error); `raised` is set when the function raised   *)
(* instead of returning.                                                   *)
(***************************************************************************)
NoSession == [present |-> FALSE, sessionId |-> "", events |-> <<>>]
SessionOf(id, evs) == [present |-> TRUE, sessionId |-> id, events |-> evs]

Generated(t) == [ok |-> TRUE, text |-> t, error |-> <<>>]
GenerationError(e) == [ok |-> FALSE, text |-> <<>>, error |-> e]

\* `model.generate_content(prompt)`: no timeout argument
GenerateCall == UntimedCall("generate")

NoScriptResult ==
    [returned |-> FALSE, raised |-> "", success |-> FALSE,
     has_script |-> FALSE, script |-> <<>>, has_error |-> FALSE, error |-> <<>>,
     dom_context_used |-> FALSE, session_id |-> ""]

\* `bool(session and session.events)`
DomContextUsed(sess) == sess.present /\ sess.events # <<>>

\* the dictionary returned at the end of the try block
ScriptSuccess(script, sess) ==
    [returned |-> TRUE, raised |-> "", success |-> TRUE,
     has_script |-> TRUE, script |-> script, has_error |-> FALSE, error |-> <<>>,
     dom_context_used |-> DomContextUsed(sess),
     session_id |-> IF sess.present THEN sess.sessionId ELSE ""]

\* "Error generating script: " followed by the error's text
ErrorScript(e) ==
    <<Run("a", 5), Space, Run("a", 10), Space, Run("a", 7), Space>> \o e

\* faulty variant: the exception of the generation call is not caught
ScriptFailure_Raises(e) == [NoScriptResult EXCEPT !.raised = "generation error"]

\* the dictionary returned by the except clause
ScriptFailure(e) ==
    [returned |-> TRUE, raised |-> "", success |-> FALSE,
     has_script |-> TRUE, script |-> ErrorScript(e), has_error |-> TRUE, error |-> e,
     dom_context_used |-> FALSE, session_id |-> ""]

\* entry: `timing_analysis = analyze_word_timings(word_timings)` is next
GsStart ==
    /\ gs_pc = "idle"
    /\ gs_pc' = "timing"
    /\ UNCHANGED <<generations, script_result>>
    /\ UNCHANGED <<segVars, taVars, ckVars, synVars, gvVars, fpVars>>

GsTimingCall == gs_pc = "timing" /\ TaStart

\* the analysis has returned; `if session and session.events` chooses
\* between building the context and skipping it
GsTimed ==
    /\ gs_pc = "timing"
    /\ ta_pc = "done"
    /\ IF ~analysis.returned
         THEN /\ script_result' = [NoScriptResult EXCEPT !.raised = analysis.raised]
              /\ gs_pc' = "done"
              /\ UNCHANGED events
         ELSE IF fp_session.present /\ fp_session.events # <<>>
           THEN /\ events' = fp_session.events
                /\ gs_pc' = "context"
                /\ UNCHANGED script_result
           ELSE /\ gs_pc' = "generate"
                /\ UNCHANGED <<events, script_result>>
    /\ UNCHANGED generations
    /\ UNCHANGED <<dom_pc, dom_i, dom_steps, dom_cur, rag_pc, rag_i, rag_steps, rag_cur,
                   ctx_k, ctx_parts>>
    /\ UNCHANGED <<taVars, ckVars, synVars, gvVars, fpVars>>

\* `dom_context = build_rag_context_from_events(session)`
GsContextCall == gs_pc = "context" /\ RagStart

GsContextBuilt ==
    /\ gs_pc = "context"
    /\ rag_pc = "done"
    /\ gs_pc' = "generate"
    /\ UNCHANGED <<generations, script_result>>
    /\ UNCHANGED <<segVars, taVars, ckVars, synVars, gvVars, fpVars>>

\* the try block around the generation call, and its except clause
GsGenerate(g) ==
    /\ gs_pc = "generate"
    /\ generations' = Append(generations, g)
    /\ external_calls' = Append(external_calls, GenerateCall)
    /\ script_result' = IF g.ok THEN ScriptSuccess(CleanScriptOutput(g.text), fp_session)
                                ELSE ScriptFailure(g.error)
    /\ gs_pc' = "done"
    /\ UNCHANGED <<syn_pc, syn_text, payloads, attempt, last_error, session,
                   sessions_created, session_closes, requests_made, slept, syn_result>>
    /\ UNCHANGED <<segVars, taVars, ckVars, gvVars, fpVars>>

(***************************************************************************)
(* test_deepgram_connectivity (elevenlabs_service.py).  The outcome of its *)
(* request is "ok" (resp.ok), "not ok" (a response with an error status)   *)
(* or "exception" (the request raised).                                    *)
(***************************************************************************)
\* `session.post(DEEPGRAM_SPEAK_URL, ..., timeout=(5, 10))`
ProbeCall == TimedCall("probe", 5, 10)

\* the value returned: resp.ok, or False from the except clause
ProbeReturns(outcome) == outcome = "ok"

\* session.close() is reached only when the request did not raise
ProbeClosesSession(outcome) == outcome # "exception"

(***************************************************************************)
(* full_process (main.py).                                                 *)
(*                                                                         *)
(* A request is [text, session, domEvents, metadata]: session is the       *)
(* validated RecordingSession or NoSession; domEvents is the flat legacy   *)
(* list, each raw event being [wellformed, event]; metadata is             *)
(* [has_sessionId, sessionId, wellformed], wellformed telling whether its  *)
(* startTime, endTime, url and viewport pass RecordingSession's            *)
(* validation.  payload.words is the variable `words`.  recordingsPath     *)
(* names a directory that can be created and written.                      *)
(*                                                                         *)
(* A bytes-or-None value is [none, bytes]; a file name is                  *)
(* [none, session_id] (the time stamp is not kept).  A response is         *)
(* [kind, ...] with kind "success" (the JSONResponse) or "failure" (the    *)
(* HTTPException of status 500).                                           *)
(***************************************************************************)
Request(text_, sess, dom_events, metadata) ==
    [text |-> text_, session |-> sess, domEvents |-> dom_events, metadata |-> metadata]

Metadata(has_id, id, wellformed) ==
    [has_sessionId |-> has_id, sessionId |-> id, wellformed |-> wellformed]

RawEvent(e) == [wellformed |-> TRUE, event |-> e]
MalformedEvent == [wellformed |-> FALSE, event |-> <<>>]

\* payload.metadata.get("sessionId", default)
MetadataSessionId(metadata, default) ==
    IF metadata.has_sessionId THEN metadata.sessionId ELSE default

\* RecordingSession(sessionId=..., events=payload.domEvents, ...) raises a
\* validation error
WrapFails(p) ==
    \/ ~p.metadata.wellformed
    \/ \E i \in 1..Len(p.domEvents) : ~p.domEvents[i].wellformed

\* faulty variant: a session that cannot be validated is kept with the
\* events that are well formed
WrapLegacyEvents_KeepsPartial(p) ==
    LET kept == SelectSeq(p.domEvents, LAMBDA r : r.wellformed)
    IN SessionOf(MetadataSessionId(p.metadata, "legacy_session"),
                 [i \in 1..Len(kept) |-> kept[i].event])

\* the try block that wraps the legacy events, and its except clause
WrapLegacyEvents(p) ==
    IF WrapFails(p)
      THEN NoSession
      ELSE SessionOf(MetadataSessionId(p.metadata, "legacy_session"),
                     [i \in 1..Len(p.domEvents) |-> p.domEvents[i].event])

NoBytes == [none |-> TRUE, bytes |-> <<>>]
Bytes(b) == [none |-> FALSE, bytes |-> b]
\* faulty variant: `if audio_bytes is not None`, empty bytes count as audio
BytesTruthy_NotNone(ab) == ~ab.none

\* `if audio_bytes`
BytesTruthy(ab) == ~ab.none /\ BytesLen(ab.bytes) > 0

NoFilename == [none |-> TRUE, session_id |-> ""]
Filename(session_id) == [none |-> FALSE, session_id |-> session_id]

SuccessResponse(script, filename, size, failed, dom_context_used, session_id) ==
    [kind |-> "success", script |-> script, processed_audio_filename |-> filename,
     audio_size_bytes |-> size, audio_generation_failed |-> failed,
     dom_context_used |-> dom_context_used, session_id |-> session_id,
     detail |-> ""]

FailureResponse(detail) ==
    [kind |-> "failure", script |-> <<>>, processed_audio_filename |-> NoFilename,
     audio_size_bytes |-> 0, audio_generation_failed |-> FALSE,
     dom_context_used |-> FALSE, session_id |-> "", detail |-> detail]

\* entry, up to the call of generate_product_script: the session is the
\* request's own, or the legacy events wrapped, or None
FpStart ==
    /\ fp_pc = "idle"
    /\ fp_session' = IF payload.session.present THEN payload.session
                     ELSE IF payload.domEvents # <<>> THEN WrapLegacyEvents(payload)
                     ELSE NoSession
    /\ fp_pc' = "script"
    /\ UNCHANGED <<payload, probe_result, production_script, audio_bytes,
                   audio_generation_failed, files_written, fp_outcomes>>
    /\ UNCHANGED <<segVars, taVars, ckVars, synVars, gvVars, gsVars>>

FpScriptCall == fp_pc = "script" /\ GsStart

\* faulty variant: a result without success is used like any other
ScriptFailed_Ignored(r) == r.raised # ""

\* the handler leaves the try block: generate_product_script raised, or
\* `if not script_result.get("success")` raises
ScriptFailed(r) == r.raised # "" \/ ~r.success

\* generate_product_script has returned: the failure response, or
\* `production_script = script_result["script"]`
FpScripted ==
    /\ fp_pc = "script"
    /\ gs_pc = "done"
    /\ IF ScriptFailed(script_result)
         THEN /\ fp_outcomes' = Append(fp_outcomes,
                     FailureResponse(IF script_result.raised # ""
                                       THEN script_result.raised
                                       ELSE "Script generation failed"))
              /\ fp_pc' = "done"
              /\ UNCHANGED production_script
         ELSE /\ production_script' = script_result.script
              /\ fp_pc' = "probe"
              /\ UNCHANGED fp_outcomes
    /\ UNCHANGED <<payload, fp_session, probe_result, audio_bytes,
                   audio_generation_failed, files_written>>
    /\ UNCHANGED <<segVars, taVars, ckVars, synVars, gvVars, gsVars>>

\* faulty variant: the synthesis is tried whatever the probe says
SkipsSynthesis_Never(reachable) == FALSE

\* `if not test_deepgram_connectivity()`
SkipsSynthesis(reachable) == ~reachable

\* the connectivity probe and the branch on its result
FpProbe(outcome) ==
    /\ fp_pc = "probe"
    /\ external_calls' = Append(external_calls, ProbeCall)
    /\ sessions_created' = sessions_created + 1
    /\ session_closes' = IF ProbeClosesSession(outcome) THEN session_closes + 1
                                                        ELSE session_closes
    /\ probe_result' = IF ProbeReturns(outcome) THEN "reachable" ELSE "unreachable"
    /\ audio_bytes' = NoBytes
    /\ IF SkipsSynthesis(ProbeReturns(outcome))
         THEN /\ audio_generation_failed' = TRUE
              /\ fp_pc' = "save"
              /\ UNCHANGED gv_text
         ELSE /\ audio_generation_failed' = FALSE
              /\ gv_text' = production_script
              /\ fp_pc' = "synthesis"
    /\ UNCHANGED <<payload, fp_session, production_script, files_written, fp_outcomes>>
    /\ UNCHANGED <<syn_pc, syn_text, payloads, attempt, last_error, session,
                   requests_made, slept, syn_result>>
    /\ UNCHANGED <<api_key, gv_pc, gv_chunks, gv_i, all_audio, gv_result>>
    /\ UNCHANGED <<segVars, taVars, ckVars, gsVars>>

\* `audio_bytes = generate_voice_from_text(production_script)`
FpVoiceCall == fp_pc = "synthesis" /\ GvStart

\* ... its return, or the except clause around it
FpVoiced ==
    /\ fp_pc = "synthesis"
    /\ gv_pc = "done"
    /\ IF gv_result.returned
         THEN /\ audio_bytes' = Bytes(gv_result.audio)
              /\ UNCHANGED audio_generation_failed
         ELSE /\ audio_generation_failed' = TRUE
              /\ UNCHANGED audio_bytes
    /\ fp_pc' = "save"
    /\ UNCHANGED <<payload, fp_session, probe_result, production_script,
                   files_written, fp_outcomes>>
    /\ UNCHANGED <<segVars, taVars, ckVars, synVars, gvVars, gsVars>>

\* steps 3 and 4: the file is written when there is audio, and the response
\* is returned
FpSave ==
    /\ fp_pc = "save"
    /\ LET session_id == MetadataSessionId(payload.metadata, "unknown")
           saves == BytesTruthy(audio_bytes) /\ ~audio_generation_failed
           filename == IF saves THEN Filename(session_id) ELSE NoFilename
       IN /\ files_written' =
                IF saves
                  THEN Append(files_written,
                              [name |-> filename, size |-> BytesLen(audio_bytes.bytes)])
                  ELSE files_written
          /\ fp_outcomes' = Append(fp_outcomes,
                 SuccessResponse(production_script, filename,
                                 IF BytesTruthy(audio_bytes)
                                   THEN BytesLen(audio_bytes.bytes) ELSE 0,
                                 audio_generation_failed,
                                 script_result.dom_context_used,
                                 session_id))
    /\ fp_pc' = "done"
    /\ UNCHANGED <<payload, fp_session, probe_result, production_script, audio_bytes,
                   audio_generation_failed>>
    /\ UNCHANGED <<segVars, taVars, ckVars, synVars, gvVars, gsVars>>

(***************************************************************************)
(* Inputs of the segmenters.                                               *)
(***************************************************************************)
\* gaps of 0, 500, 2000 (the threshold itself), 2001 ms and negative ones
SegTimestamps == {0, 500, 2500, 2501}
SegPool == {Event(ts, ty, NoTarget, "", NoScrollPosition) :
              ts \in SegTimestamps, ty \in {"click", "blur", "step_change"}}

\* the end-to-end scenario of the specification: clicks at 0, 500, 3500 ms
\* and a scroll at 3600 ms with position (0, 0)
ScenarioEvents ==
    << Event(0, "click", NoTarget, "", NoScrollPosition),
       Event(500, "click", NoTarget, "", NoScrollPosition),
       Event(3500, "click", NoTarget, "", NoScrollPosition),
       Event(3600, "scroll", NoTarget, "", ScrollPositionAt(0, 0)) >>

SaveButton == TargetOf("Save", "", "BUTTON", "")
EmailField == TargetOf("", "email-input", "INPUT", "email")

\* inputs of the context builder: every kind of scroll (no position, zero
\* position, non-zero on one axis) and the other event types
CtxPool ==
    { Event(0, "click", NoTarget, "", NoScrollPosition),
      Event(3000, "click", SaveButton, "", NoScrollPosition),
      Event(0, "type", EmailField, "short", NoScrollPosition),
      Event(0, "focus", EmailField, "", NoScrollPosition),
      Event(0, "scroll", NoTarget, "", NoScrollPosition),
      Event(0, "scroll", NoTarget, "", ScrollPositionAt(0, 0)),
      Event(3000, "scroll", NoTarget, "", ScrollPositionAt(0, 0)),
      Event(0, "scroll", NoTarget, "", ScrollPositionAt(0, 120)),
      Event(3000, "scroll", NoTarget, "", ScrollPositionAt(40, 0)),
      Event(0, "step_change", NoTarget, "", NoScrollPosition) }

(***************************************************************************)
(* Inputs of the timing analyzer: starts and ends at 0, 0.25, 0.75 and 1 s *)
(* (words may overlap and may end before they start), confidences 0.5 and  *)
(* 0.8, a filler and a plain word; and the two-word example of the         *)
(* specification.                                                          *)
(***************************************************************************)
WordTimes == {0, 1, 3, 4}
WordPool == {Word(w, s, e, c) : w \in {"um", "the"}, s \in WordTimes, e \in WordTimes,
                                c \in {50, 80}}

\* [{start: 0, end: 1, confidence: 0.9}, {start: 1.5, end: 2, confidence: 0.9}]
ExampleWords == << Word("the", 0, 4, 90), Word("page", 6, 8, 90) >>

\* five words separated by 0.25 s, 0.5 s, 0.75 s and 1 s
PausedWords ==
    << Word("open", 0, 1, 90), Word("the", 2, 3, 90), Word("page", 5, 6, 90),
       Word("and", 9, 10, 90), Word("save", 14, 15, 90) >>

(***************************************************************************)
(* Inputs of the chunker: the whitespace-normalized strings (single        *)
(* spaces, none leading or trailing) of at most MaxRuns runs, in canonical *)
(* encoding.  The letter runs make sentences of 2, 749, 750, 1500 and 1501 *)
(* characters: two sentences fill a chunk exactly (749 + 1 + 750), miss it *)
(* by one (750 + 1 + 750), and one sentence alone is at or over the size.  *)
(***************************************************************************)
LetterRunLengths == {1, 748, 749, 1499, 1500}
RunPool == {Run("a", n) : n \in LetterRunLengths} \cup {Run(".", 1), Run("?", 1), Space}

\* r may follow s in a canonical, whitespace-normalized encoding
MayFollow(s, r) == IF s = <<>> THEN ~IsSpaceRun(r) ELSE s[Len(s)].c # r.c

IsCanonical(s) == \A i \in 1..(Len(s) - 1) : s[i].c # s[i + 1].c

\* re.sub(r'\s+', ' ', s).strip() leaves s unchanged
IsWhitespaceNormalized(s) ==
    /\ s = Strip(s)
    /\ \A i \in 1..Len(s) : IsSpaceRun(s[i]) => s[i].n = 1
    /\ \A i \in 1..(Len(s) - 1) : ~(IsSpaceRun(s[i]) /\ IsSpaceRun(s[i + 1]))

RECURSIVE NormalizedPrefixes(_)
NormalizedPrefixes(k) ==
    IF k = 0 THEN {<<>>}
    ELSE {Append(s, r) : <<s, r>> \in
             {p \in NormalizedPrefixes(k - 1) \X RunPool : MayFollow(p[1], p[2])}}

NormalizedTexts ==
    {s \in UNION {NormalizedPrefixes(k) : k \in 0..MaxRuns} : IsWhitespaceNormalized(s)}

(***************************************************************************)
(* Outcomes of a synthesis request: every kind of failure, with every      *)
(* wording of its message, and responses of 0, 99, 100 and 5000 bytes.     *)
(***************************************************************************)
ResponseSizes == {0, 99, 100, 5000}
Outcomes ==
    {Outcome(k, 0, t, c) : k \in {"Timeout", "RequestError", "HttpError"},
                           t \in BOOLEAN, c \in BOOLEAN}
    \cup {Outcome("Response", n, FALSE, FALSE) : n \in ResponseSizes}

(***************************************************************************)
(* Inputs of generate_voice_from_text: blank texts; texts that fit one     *)
(* request (without a final terminator, with doubled spaces, of exactly    *)
(* 1500 characters once normalized); texts of one, two and three chunks.   *)
(* The requests time out or answer 99, 100 or 5000 bytes.                  *)
(***************************************************************************)
LongSentence == <<Run("a", 1499), Run(".", 1)>>

VoiceTexts ==
    { <<>>,
      <<Run(" ", 2)>>,
      <<Run("a", 5)>>,
      <<Run("a", 748), Run(".", 1), Run(" ", 2), Run("a", 749)>>,
      <<Run("a", 1500)>>,
      LongSentence \o <<Space>> \o LongSentence,
      LongSentence \o <<Space, Run("a", 1498), Run("?", 1)>>,
      LongSentence \o <<Run("\n", 1)>> \o LongSentence \o <<Space, Run("a", 1499)>> }

\* the text of a stand-alone call of _generate_single_chunk
SynthTexts == { <<Run("a", 5), Run(".", 1)>> }

VoiceOutcomes ==
    { Outcome("Timeout", 0, TRUE, FALSE),
      Outcome("Response", 99, FALSE, FALSE),
      Outcome("Response", 100, FALSE, FALSE),
      Outcome("Response", 5000, FALSE, FALSE) }

(***************************************************************************)
(* Inputs of full_process: requests without events, with a session (with   *)
(* and without events), with legacy events that can be wrapped (with and   *)
(* without a session id in the metadata) and that cannot (a malformed      *)
(* event, malformed metadata); generated texts with markdown and newlines, *)
(* empty, and of two chunks; a failing generation call.                    *)
(***************************************************************************)
Transcript == <<Run("a", 4), Space, Run("a", 3)>>

LegacyEvents == [i \in 1..Len(ScenarioEvents) |-> RawEvent(ScenarioEvents[i])]

Requests ==
    { Request(Transcript, NoSession, <<>>, Metadata(FALSE, "", TRUE)),
      Request(Transcript, SessionOf("s1", ScenarioEvents), <<>>, Metadata(TRUE, "s1", TRUE)),
      Request(Transcript, SessionOf("s1", <<>>), <<>>, Metadata(TRUE, "m1", TRUE)),
      Request(Transcript, NoSession, LegacyEvents, Metadata(TRUE, "m1", TRUE)),
      Request(Transcript, NoSession, LegacyEvents, Metadata(FALSE, "", TRUE)),
      Request(Transcript, NoSession, Append(LegacyEvents, MalformedEvent),
              Metadata(TRUE, "m1", TRUE)),
      Request(Transcript, NoSession, LegacyEvents, Metadata(TRUE, "m1", FALSE)) }

RequestWords == {<<>>, ExampleWords}

GenerationOutcomes ==
    { Generated(<<Run("*", 2), Run("a", 4), Run("*", 2), Space, Run("a", 3), Space,
                  Run(".", 1), Run("\n", 1)>>),
      Generated(<<>>),
      Generated(LongSentence \o <<Space>> \o LongSentence),
      GenerationError(<<Run("a", 7)>>) }

ProbeOutcomes == {"ok", "not ok", "exception"}

(***************************************************************************)
(* Inputs of generate_product_script alone: the texts the remote model may *)
(* answer, of at most MaxScriptRuns characters among a letter, the four    *)
(* punctuation marks, the blank, the newline and the star (each character  *)
(* is a run of length 1, so that an input need not be canonical); or its   *)
(* failure.                                                                *)
(***************************************************************************)
ScriptRunPool == {Run(c, 1) : c \in {"a", ".", ",", "!", "?", " ", "\n", "*"}}

\* the texts of k characters
GeneratedTexts(k) == [1..k -> ScriptRunPool]

ScriptSessions == {NoSession, SessionOf("s1", ScenarioEvents)}

(***************************************************************************)
(*                             Specifications                              *)
(***************************************************************************)
SegIdle ==
    /\ dom_pc = "idle" /\ dom_i = 0 /\ dom_steps = <<>> /\ dom_cur = NoDomStep
    /\ rag_pc = "idle" /\ rag_i = 0 /\ rag_steps = <<>> /\ rag_cur = NoRagStep
    /\ ctx_k = 0 /\ ctx_parts = <<>>

TaIdle ==
    /\ ta_pc = "idle" /\ ta_i = 0 /\ gaps = <<>> /\ speaking_segments = <<>>
    /\ low_confidence_words = <<>> /\ filler_words = <<>>
    /\ current_segment = NoSegment /\ analysis = NoAnalysis

CkIdle ==
    /\ ck_pc = "idle" /\ sentences = <<>> /\ ck_i = 0 /\ chunks = <<>>
    /\ current_chunk = <<>> /\ ck_result = <<>>

NoSynResult == [returned |-> FALSE, size |-> 0, raised |-> "",
                mentions_attempts |-> FALSE, error |-> NoError]

SynIdle ==
    /\ syn_pc = "idle" /\ syn_text = <<>> /\ payloads = <<>>
    /\ attempt = 0 /\ last_error = NoError
    /\ session = "none" /\ sessions_created = 0 /\ session_closes = 0
    /\ requests_made = <<>> /\ slept = <<>> /\ syn_result = NoSynResult
    /\ external_calls = <<>>

SegOff == events = <<>> /\ SegIdle
TaOff == words = <<>> /\ TaIdle
CkOff == text = <<>> /\ CkIdle
SynOff == SynIdle

GvIdle ==
    /\ gv_pc = "idle" /\ gv_chunks = <<>> /\ gv_i = 0 /\ all_audio = <<>>
    /\ gv_result = NoVoiceResult

VoiceOff == gv_text = <<>> /\ api_key = TRUE /\ GvIdle

GsIdle == gs_pc = "idle" /\ generations = <<>> /\ script_result = NoScriptResult

FpIdle ==
    /\ fp_pc = "idle" /\ fp_session = NoSession /\ probe_result = "none"
    /\ production_script = <<>> /\ audio_bytes = NoBytes
    /\ audio_generation_failed = FALSE /\ files_written = <<>> /\ fp_outcomes = <<>>

PipelineOff ==
    /\ payload = Request(<<>>, NoSession, <<>>, Metadata(FALSE, "", TRUE))
    /\ GsIdle /\ FpIdle

\* the segmenters and the context builder on bounded event lists
InitSeg ==
    /\ events \in SeqsUpTo(SegPool, MaxEvents) \cup {ScenarioEvents}
    /\ SegIdle
    /\ TaOff /\ CkOff /\ SynOff /\ VoiceOff /\ PipelineOff

NextSeg ==
    \/ DomStart \/ DomLoop \/ DomFinish
    \/ RagStart \/ RagLoop \/ RagFinish
    \/ CtxStep \/ CtxReturn

SpecSeg == InitSeg /\ [][NextSeg]_vars

InitCtx ==
    /\ events \in SeqsUpTo(CtxPool, MaxEvents) \cup {ScenarioEvents}
    /\ SegIdle
    /\ TaOff /\ CkOff /\ SynOff /\ VoiceOff /\ PipelineOff

SpecCtx == InitCtx /\ [][NextSeg]_vars

\* the timing analyzer on bounded word lists
InitTiming ==
    /\ words \in SeqsUpTo(WordPool, MaxWords) \cup {ExampleWords, PausedWords}
    /\ TaIdle
    /\ SegOff /\ CkOff /\ SynOff /\ VoiceOff /\ PipelineOff

NextTiming == TaStart \/ TaLoop \/ TaFinish

SpecTiming == InitTiming /\ [][NextTiming]_vars

\* the chunker on whitespace-normalized texts
InitChunk ==
    /\ text \in NormalizedTexts
    /\ CkIdle
    /\ SegOff /\ TaOff /\ SynOff /\ VoiceOff /\ PipelineOff

NextChunk == CkStart \/ CkLoop \/ CkFinish

SpecChunk == InitChunk /\ [][NextChunk]_vars

\* one call of _generate_single_chunk against every sequence of outcomes
InitSynth == SynIdle /\ SegOff /\ TaOff /\ CkOff /\ VoiceOff /\ PipelineOff

NextSynth ==
    \/ \E t \in SynthTexts : SynStart(t)
    \/ \E o \in Outcomes : SynPost(o)
    \/ SynBackoff
    \/ SynGiveUp

SpecSynth == InitSynth /\ [][NextSynth]_vars

\* one call of generate_voice_from_text
InitVoice ==
    /\ gv_text \in VoiceTexts
    /\ api_key \in BOOLEAN
    /\ GvIdle
    /\ SegOff /\ TaOff /\ CkOff /\ SynOff /\ PipelineOff

NextVoice ==
    \/ GvStart
    \/ GvSingleCall \/ GvSingleReturn
    \/ GvChunkCall \/ CkLoop \/ CkFinish \/ GvChunked
    \/ GvLoopCall \/ GvLoopReturn \/ GvReturn
    \/ \E o \in VoiceOutcomes : SynPost(o)
    \/ SynBackoff
    \/ SynGiveUp

SpecVoice == InitVoice /\ [][NextVoice]_vars

\* one request to full_process
InitPipeline ==
    /\ payload \in Requests
    /\ words \in RequestWords
    /\ api_key \in BOOLEAN
    /\ events = <<>> /\ SegIdle
    /\ TaIdle
    /\ CkOff /\ SynOff
    /\ gv_text = <<>> /\ GvIdle
    /\ GsIdle /\ FpIdle

NextPipeline ==
    \/ FpStart
    \/ FpScriptCall
    \/ GsTimingCall \/ TaLoop \/ TaFinish \/ GsTimed
    \/ GsContextCall \/ RagLoop \/ RagFinish \/ CtxStep \/ CtxReturn \/ GsContextBuilt
    \/ \E g \in GenerationOutcomes : GsGenerate(g)
    \/ FpScripted
    \/ \E outcome \in ProbeOutcomes : FpProbe(outcome)
    \/ FpVoiceCall
    \/ GvSingleCall \/ GvSingleReturn
    \/ GvChunkCall \/ CkLoop \/ CkFinish \/ GvChunked
    \/ GvLoopCall \/ GvLoopReturn \/ GvReturn
    \/ \E o \in VoiceOutcomes : SynPost(o)
    \/ SynBackoff
    \/ SynGiveUp
    \/ FpVoiced
    \/ FpSave

SpecPipeline == InitPipeline /\ [][NextPipeline]_vars

\* one call of generate_product_script
InitScript ==
    /\ words = ExampleWords
    /\ fp_session \in ScriptSessions
    /\ payload = Request(<<>>, NoSession, <<>>, Metadata(FALSE, "", TRUE))
    /\ fp_pc = "idle" /\ probe_result = "none"
    /\ production_script = <<>> /\ audio_bytes = NoBytes
    /\ audio_generation_failed = FALSE /\ files_written = <<>> /\ fp_outcomes = <<>>
    /\ GsIdle
    /\ events = <<>> /\ SegIdle
    /\ TaIdle
    /\ CkOff /\ SynOff /\ VoiceOff

NextScript ==
    \/ GsStart
    \/ GsTimingCall \/ TaLoop \/ TaFinish \/ GsTimed
    \/ GsContextCall \/ RagLoop \/ RagFinish \/ CtxStep \/ CtxReturn \/ GsContextBuilt
    \/ /\ gs_pc = "generate"
       /\ \E k \in 0..MaxScriptRuns : \E t \in GeneratedTexts(k) :
              GsGenerate(Generated(t))
    \/ GsGenerate(GenerationError(<<Run("a", 7)>>))

SpecScript == InitScript /\ [][NextScript]_vars

(***************************************************************************)
(*                         Claims: event segmenter                         *)
(***************************************************************************)
StepsEvents(steps) == Flatten([k \in 1..Len(steps) |-> steps[k].events])

DomDone == dom_pc = "done"
RagSegmented == rag_pc \in {"context", "done"}

IsPartition(steps) ==
    /\ StepsEvents(steps) = events
    /\ \A k \in 1..Len(steps) : steps[k].events # <<>>

\* C1: for every event sequence the steps returned by either segmenter form a
\* partition: the concatenation of the steps' events, in step order, is the
\* input sequence (nothing dropped, duplicated or reordered), and no step is
\* empty.
C1_Partition ==
    /\ DomDone => IsPartition(dom_steps)
    /\ RagSegmented => IsPartition(rag_steps)

\* both segmenters have returned two steps for three events whose timestamps
\* are out of order
C1_Witness ==
    /\ DomDone /\ rag_pc = "done"
    /\ Len(events) = 3
    /\ events[3].timestamp < events[2].timestamp
    /\ Len(dom_steps) = 2 /\ Len(rag_steps) = 2

StepChangeIsFirst(steps) ==
    \A k \in 1..Len(steps) : \A j \in 2..Len(steps[k].events) :
        steps[k].events[j].type # "step_change"

\* C2: every step_change event is the first member of the step that contains
\* it, whatever the gap to the preceding event and whatever its position.
C2_StepChangeStartsStep ==
    /\ DomDone => StepChangeIsFirst(dom_steps)
    /\ RagSegmented => StepChangeIsFirst(rag_steps)

\* a step_change with a gap of 0 ms followed by one with a negative gap, each
\* opening its own step
C2_Witness ==
    /\ DomDone
    /\ Len(events) = 3
    /\ events[2].type = "step_change" /\ events[2].timestamp = events[1].timestamp
    /\ events[3].type = "step_change" /\ events[3].timestamp < events[2].timestamp
    /\ Len(dom_steps) = 3

\* index in events of the first member of each step
RECURSIVE StepStartsFrom(_, _)
StepStartsFrom(steps, first) ==
    IF steps = <<>> THEN {}
    ELSE {first} \cup StepStartsFrom(Tail(steps), first + Len(Head(steps).events))

StepStarts(steps) == StepStartsFrom(steps, 1)

\* the claim's boundary condition at index i >= 2 (1-based)
ClaimedBoundary(i) ==
    \/ events[i].timestamp - events[i - 1].timestamp > 2000
    \/ events[i].type = "step_change"

ClaimedBoundaries == {i \in 2..Len(events) : ClaimedBoundary(i)}

\* C3: an event after the first starts a new step iff its timestamp exceeds
\* the previous event's by more than 2000 ms or it is a step_change; the
\* number of steps is 0 for empty input and 1 + the number of such events
\* otherwise; the scenario (clicks at 0, 500, 3500, scroll at 3600) has 2 steps.
C3_BoundaryIff ==
    RagSegmented =>
        /\ events = <<>> => rag_steps = <<>>
        /\ events # <<>> =>
              /\ StepStarts(rag_steps) = {1} \cup ClaimedBoundaries
              /\ Len(rag_steps) = 1 + Cardinality(ClaimedBoundaries)
        /\ events = ScenarioEvents => Len(rag_steps) = 2

\* the scenario has been segmented into its two steps
C3_Witness ==
    /\ rag_pc = "done"
    /\ events = ScenarioEvents
    /\ Len(rag_steps) = 2
    /\ Len(rag_steps[1].events) = 2

\* C27: the k-th step returned by group_events_by_step (k counted from 1)
\* has stepNumber k, the timestamp of its first member event as startTime and
\* the timestamp of its last member event as endTime.
C27_StepFields ==
    DomDone =>
        \A k \in 1..Len(dom_steps) :
            LET step == dom_steps[k]
            IN /\ step.stepNumber = k
               /\ step.events # <<>>
               /\ step.startTime = step.events[1].timestamp
               /\ step.endTime = Last(step.events).timestamp

\* two steps: the first one of two events with different timestamps, closed
\* by a step_change
C27_Witness ==
    /\ DomDone
    /\ Len(dom_steps) = 2
    /\ Len(dom_steps[1].events) = 2
    /\ dom_steps[1].startTime = 0 /\ dom_steps[1].endTime = 500
    /\ dom_steps[2].stepNumber = 2
    /\ dom_steps[2].events[1].type = "step_change"

\* C28 as claimed: _group_events_into_steps accepts timestamps that are out
\* of order or repeated: on every event sequence it returns, and every step
\* it returns has startTime <= endTime.
C28_StepsWellFormed ==
    RagSegmented =>
        \A k \in 1..Len(rag_steps) : rag_steps[k].startTime <= rag_steps[k].endTime

\* C32: group_events_by_step and _group_events_into_steps are equivalent:
\* on every event sequence they return the same number of steps, and the
\* steps of equal rank have the same stepNumber, startTime, endTime and
\* member events.
C32_SegmentersAgree ==
    (DomDone /\ RagSegmented) =>
        /\ Len(dom_steps) = Len(rag_steps)
        /\ \A k \in 1..Len(dom_steps) :
              /\ dom_steps[k].stepNumber = rag_steps[k].stepNumber
              /\ dom_steps[k].startTime = rag_steps[k].startTime
              /\ dom_steps[k].endTime = rag_steps[k].endTime
              /\ dom_steps[k].events = rag_steps[k].events

\* both have segmented three events, the second one exactly 2000 ms after
\* the first, the third one a step_change: two steps each
C32_Witness ==
    /\ DomDone /\ RagSegmented
    /\ Len(events) = 3
    /\ events[2].timestamp - events[1].timestamp = STEP_THRESHOLD_MS
    /\ events[2].type # "step_change" /\ events[3].type = "step_change"
    /\ Len(dom_steps) = 2 /\ Len(rag_steps) = 2
    /\ Len(rag_steps[1].events) = 2

(***************************************************************************)
(*                         Claims: context builder                         *)
(***************************************************************************)
IsScroll(e) == e.type = "scroll"
IsZeroScroll(e) ==
    IsScroll(e) /\ e.scrollPosition.present
                /\ e.scrollPosition.x = 0 /\ e.scrollPosition.y = 0
IsScrollLine(l) == l.desc.text \in {"Scrolled to position", "Scrolled page"}

\* the line the narrative is expected to hold for a scroll event
ScrollLine(e) ==
    [timestamp |-> e.timestamp,
     desc |-> IF e.scrollPosition.present
                THEN [none |-> FALSE, text |-> "Scrolled to position", arg |-> "",
                      x |-> e.scrollPosition.x, y |-> e.scrollPosition.y]
                ELSE [none |-> FALSE, text |-> "Scrolled page", arg |-> "",
                      x |-> 0, y |-> 0]]

MapScrollLine(evs) == [i \in 1..Len(evs) |-> ScrollLine(evs[i])]

ContextBuilt == rag_pc = "done"

Analyzed == ta_pc = "done"

\* C5 as claimed: for the two-word example the analyzer reports exactly one
\* gap, of 0.5 s, and its type is natural.
C5_ExampleGapNatural ==
    (Analyzed /\ words = ExampleWords) =>
        /\ analysis.returned
        /\ Len(analysis.gaps) = 1
        /\ analysis.gaps[1].duration = 2
        /\ analysis.gaps[1].type = "natural"

\* C5 (amended): for the two-word example the analyzer reports exactly one
\* gap, of 0.5 s (two quarter seconds), after the first word, and its type
\* is minor: a gap is natural only when it is longer than 0.5 s.
C5_ExampleGapMinor ==
    (Analyzed /\ words = ExampleWords) =>
        /\ analysis.returned
        /\ Len(analysis.gaps) = 1
        /\ analysis.gaps[1].duration = 2
        /\ analysis.gaps[1].position = 0
        /\ analysis.gaps[1].type = "minor"

\* the example has been analyzed and its gap recorded
C5_Witness ==
    /\ Analyzed /\ words = ExampleWords
    /\ analysis.returned /\ Len(analysis.gaps) = 1

IsFlaggedLowConfidence(i) ==
    \E j \in 1..Len(analysis.low_confidence_words) :
        analysis.low_confidence_words[j].position = i - 1

\* C6: for every non-empty word list and every position in it (the last and
\* the only word included) the word is in low_confidence_words iff its
\* confidence is below 0.8.
C6_LowConfidenceIff ==
    (Analyzed /\ words # <<>>) =>
        /\ analysis.returned
        /\ \A i \in 1..Len(words) :
              IsFlaggedLowConfidence(i) <=> words[i].confidence < 80

\* C7: analyze_word_timings never fails with a division error; speaking_rate
\* is 0 whenever total_duration <= 0 and word_count / total_duration
\* otherwise; average_gap is 0 when no gap was recorded.
C7_NoDivisionError ==
    Analyzed =>
        /\ analysis.raised = ""
        /\ analysis.returned
        /\ words # <<>> =>
              LET total_duration == words[Len(words)].end - words[1].start
                  rate == analysis.speaking_rate
              IN /\ analysis.total_duration = total_duration
                 /\ total_duration <= 0 => rate.num = 0
                 /\ total_duration > 0 =>
                       rate.num * total_duration = 4 * Len(words) * rate.den
        /\ analysis.gaps = <<>> => analysis.average_gap.num = 0

\* a single word with start = end = 0 has been analyzed: the rate is 0
C7_Witness ==
    /\ Analyzed
    /\ Len(words) = 1 /\ words[1].start = 0 /\ words[1].end = 0
    /\ analysis.returned /\ analysis.speaking_rate.num = 0

\* the adjacent pairs (0-based position of the first word) that the claim
\* says are gaps, in increasing order, from position i on
RECURSIVE ClaimedGapPositions(_)
ClaimedGapPositions(i) ==
    IF i > Len(words) - 2 THEN <<>>
    ELSE IF 10 * (words[i + 2].start - words[i + 1].end) > 4 * 3
      THEN <<i>> \o ClaimedGapPositions(i + 1)
      ELSE ClaimedGapPositions(i + 1)

\* the type the claim gives to a gap of d quarter seconds
ClaimedGapType(d) ==
    CASE 10 * d > 4 * 8 -> "major"
      [] 10 * d > 4 * 5 /\ 10 * d <= 4 * 8 -> "natural"
      [] 10 * d > 4 * 3 /\ 10 * d <= 4 * 5 -> "minor"
      [] OTHER -> "none"

\* C20: analyze_word_timings records a gap at position i exactly for the
\* adjacent pairs (i, i+1) with words[i+1].start - words[i].end > 0.3 s, once
\* each and in order; the recorded duration is that difference and the type
\* is major above 0.8 s, natural above 0.5 s up to 0.8 s, minor above 0.3 s
\* up to 0.5 s.
C20_GapsIff ==
    (Analyzed /\ analysis.returned) =>
        LET claimed == ClaimedGapPositions(0)
        IN /\ Len(analysis.gaps) = Len(claimed)
           /\ \A k \in 1..Len(claimed) :
                 LET g == analysis.gaps[k]
                     i == claimed[k]
                     d == words[i + 2].start - words[i + 1].end
                 IN /\ g.position = i
                    /\ g.duration = d
                    /\ g.type = ClaimedGapType(d)

\* five words whose four pauses are 0.25 s (no gap), 0.5 s (minor), 0.75 s
\* (natural) and 1 s (major)
C20_Witness ==
    /\ Analyzed /\ analysis.returned
    /\ Len(words) = 5
    /\ Len(analysis.gaps) = 3
    /\ analysis.gaps[1].position = 1 /\ analysis.gaps[1].type = "minor"
    /\ analysis.gaps[2].position = 2 /\ analysis.gaps[2].type = "natural"
    /\ analysis.gaps[3].position = 3 /\ analysis.gaps[3].type = "major"

\* the maximal runs of words (as pairs of 1-based indices, first and last)
\* that no pause longer than 0.3 s interrupts: the run that starts at word
\* `first` ends at the first word i >= first that is the last word or is
\* followed by such a pause
RECURSIVE ClaimedRunsFrom(_, _)
ClaimedRunsFrom(first, i) ==
    IF i > Len(words) THEN <<>>
    ELSE IF i = Len(words) THEN << <<first, i>> >>
    ELSE IF 10 * (words[i + 1].start - words[i].end) > 4 * 3
           THEN << <<first, i>> >> \o ClaimedRunsFrom(i + 1, i + 1)
           ELSE ClaimedRunsFrom(first, i + 1)

ClaimedRuns == ClaimedRunsFrom(1, 1)

\* C21 as claimed: the speaking segments analyze_word_timings reports are
\* exactly the maximal runs of consecutive words separated by pauses longer
\* than 0.3 s, in order: a segment's words are all the words of its run, its
\* word_count is the run's length, it starts at the start of the run's first
\* word and ends at the end of its last word; so every word is in exactly one
\* segment.
C21_SegmentsAreRuns ==
    (Analyzed /\ analysis.returned) =>
        /\ Len(analysis.speaking_segments) = Len(ClaimedRuns)
        /\ \A k \in 1..Len(ClaimedRuns) :
              LET seg == analysis.speaking_segments[k]
                  first == ClaimedRuns[k][1]
                  last == ClaimedRuns[k][2]
              IN /\ seg.words = SubSeq(words, first, last)
                 /\ seg.word_count = last - first + 1
                 /\ seg.start = words[first].start
                 /\ seg.end = words[last].end

Chunked == ck_pc = "done"

\* the chunks joined with single spaces
RECURSIVE JoinWithSpaces(_)
JoinWithSpaces(cs) ==
    IF cs = <<>> THEN <<>>
    ELSE IF Len(cs) = 1 THEN Head(cs)
    ELSE Head(cs) \o <<Space>> \o JoinWithSpaces(Tail(cs))

SentencesOfChunks(cs) == Flatten([k \in 1..Len(cs) |-> ChunkBySentence(cs[k])])

IsOneOversizedSentence(c) ==
    /\ StrLen(c) > 1500
    /\ Len(ChunkBySentence(c)) = 1

AllSentencesFit(s) ==
    \A k \in 1..Len(ChunkBySentence(s)) : StrLen(ChunkBySentence(s)[k]) <= 1500

\* C8: for every whitespace-normalized text longer than 1500 characters,
\* every chunk is at most 1500 characters long unless it is one single
\* sentence that is itself longer than 1500 characters; and when every
\* sentence is at most 1500 characters there are at least 2 chunks.
C8_ChunkSize ==
    (Chunked /\ IsWhitespaceNormalized(text) /\ StrLen(text) > 1500) =>
        /\ \A k \in 1..Len(ck_result) :
              StrLen(ck_result[k]) <= 1500 \/ IsOneOversizedSentence(ck_result[k])
        /\ AllSentencesFit(text) => Len(ck_result) >= 2

\* a text of 1501 characters made of two sentences of 750 characters has
\* been split into two chunks
C8_Witness ==
    /\ Chunked
    /\ StrLen(text) = 1501
    /\ Len(sentences) = 2 /\ StrLen(sentences[1]) = 750 /\ StrLen(sentences[2]) = 750
    /\ Len(ck_result) = 2

LosesNothing ==
    /\ Canon(JoinWithSpaces(ck_result)) = Canon(text)
    /\ SentencesOfChunks(ck_result) = ChunkBySentence(text)
    /\ \A k \in 1..Len(ck_result) : ck_result[k] # <<>>

\* C9 as claimed: for every whitespace-normalized text the chunks joined
\* with single spaces are the text, the sentences of the chunks are the
\* sentences of the text in order (each in one chunk), and no chunk is empty.
C9_LosesNothing ==
    (Chunked /\ IsWhitespaceNormalized(text)) => LosesNothing

\* C9 (amended): the same for every non-empty whitespace-normalized text
\* (for the empty text the result is the one empty chunk [""]).
C9_LosesNothingNonEmpty ==
    (Chunked /\ IsWhitespaceNormalized(text) /\ text # <<>>) => LosesNothing

\* a text of three sentences has been chunked into two chunks, one of which
\* holds two sentences
C9_Witness ==
    /\ Chunked
    /\ Len(sentences) = 3
    /\ Len(ck_result) = 2
    /\ Len(ChunkBySentence(ck_result[1])) = 2 \/ Len(ChunkBySentence(ck_result[2])) = 2

(***************************************************************************)
(*                     Claims: single-chunk synthesis                      *)
(***************************************************************************)
\* a success in the claim's sense: an ok response of at least 100 bytes
IsSuccess(o) == o.kind = "Response" /\ o.size >= 100

Attempts == Len(requests_made)

\* C10: single-chunk synthesis makes at most 3 attempts; when the first
\* success is on attempt k it returns that attempt's payload after exactly k
\* attempts and makes no further attempt; when all 3 attempts fail it raises
\* after exactly 3 attempts, whatever the kinds of failure.
C10_AtMostThreeAttempts ==
    /\ Attempts <= 3
    /\ \A j \in 1..Attempts :
          IsSuccess(requests_made[j]) => (j = Attempts /\ syn_pc = "returned")
    /\ syn_pc = "returned" =>
          /\ Attempts \in 1..3
          /\ IsSuccess(requests_made[Attempts])
          /\ syn_result.returned
          /\ syn_result.size = requests_made[Attempts].size
    /\ syn_pc = "raised" =>
          /\ Attempts = 3
          /\ \A j \in 1..3 : ~IsSuccess(requests_made[j])
          /\ ~syn_result.returned /\ syn_result.raised # ""
    /\ (Attempts = 3 /\ syn_pc = "attempt") => ~ENABLED (\E o \in Outcomes : SynPost(o))

\* two failures of different kinds (a timeout, an undersized payload), then a
\* success on the third attempt, whose payload is returned
C10_Witness ==
    /\ syn_pc = "returned"
    /\ Attempts = 3
    /\ requests_made[1].kind = "Timeout"
    /\ requests_made[2].kind = "Response" /\ requests_made[2].size = 99
    /\ syn_result.size = 5000

\* an ok response of fewer than 100 bytes
IsUndersized(o) == o.kind = "Response" /\ o.size < 100

\* the delays slept after n failed attempts: 1 s, 2 s, and none after the last
BackoffAfter(n) ==
    [k \in 1..(IF n < MAX_RETRIES THEN n ELSE MAX_RETRIES - 1) |-> RETRY_DELAY * k]

\* C18: an ok response of fewer than 100 bytes is never returned: it is a
\* failed attempt like any other (it is recorded as the last error, it counts
\* in the three attempts and it is followed by the same backoff as a
\* transport failure), so a returned payload has at least 100 bytes.
C18_UndersizedIsFailure ==
    /\ syn_pc = "returned" => (syn_result.returned /\ syn_result.size >= 100)
    /\ \A j \in 1..Attempts :
          IsUndersized(requests_made[j]) =>
              /\ ~(j = Attempts /\ syn_pc = "returned")
              /\ Attempts <= MAX_RETRIES
              /\ (j = Attempts /\ syn_pc = "failed") =>
                     last_error.kind = "RuntimeError(too small)"
    /\ syn_pc = "failed" => (attempt = Attempts /\ slept = BackoffAfter(attempt - 1))
    /\ syn_pc = "attempt" => (attempt = Attempts + 1 /\ slept = BackoffAfter(attempt - 1))
    /\ syn_pc = "raised" => slept = BackoffAfter(MAX_RETRIES)

\* a 99-byte response on the first attempt and a 0-byte response on the
\* second are each followed by a backoff (1 s, 2 s); the third attempt's
\* 100 bytes are returned
C18_Witness ==
    /\ syn_pc = "returned"
    /\ Attempts = 3
    /\ requests_made[1] = Outcome("Response", 99, FALSE, FALSE)
    /\ requests_made[2] = Outcome("Response", 0, FALSE, FALSE)
    /\ slept = <<1, 2>>
    /\ syn_result.size = 100

C25_OneSessionPerCall ==
    /\ [](/\ syn_pc = "idle" => (sessions_created = 0 /\ session = "none")
          /\ syn_pc \in {"attempt", "failed"} =>
                (sessions_created = 1 /\ session = "open" /\ session_closes = 0)
          /\ syn_pc \in {"returned", "raised"} =>
                (sessions_created = 1 /\ session = "closed" /\ session_closes = 1))
    /\ [][requests_made' # requests_made =>
             (session = "open" /\ sessions_created' = sessions_created)]_vars

\* a call that returns on its second attempt: one session, closed once
C25_Witness ==
    /\ syn_pc = "returned"
    /\ Attempts = 2
    /\ sessions_created = 1 /\ session_closes = 1 /\ session = "closed"

\* the category of the failure raised: the two RuntimeErrors written for a
\* timeout and for a connection failure, or the last error itself (generic)
FailureCategory(r) == IF r.raised = "last_error" THEN "generic" ELSE r.raised

\* C19: when the three attempts are exhausted, the failure raised is of the
\* timeout, connection or generic category, and in each category its message
\* states the category and the number of attempts made.
C19_MessageStatesAttempts ==
    syn_pc = "raised" =>
        /\ Attempts = MAX_RETRIES
        /\ FailureCategory(syn_result) \in {"timeout", "connection", "generic"}
        /\ syn_result.mentions_attempts

(***************************************************************************)
(*                   Claims: synthesis of a whole text                     *)
(***************************************************************************)
VoiceDone == gv_pc = "done"

\* the indices in requests_made of the requests that succeeded, in order,
\* from index j on: each one ended a chunk's synthesis with its payload
RECURSIVE SuccessfulRequestsFrom(_)
SuccessfulRequestsFrom(j) ==
    IF j > Len(requests_made) THEN <<>>
    ELSE IF IsSuccess(requests_made[j])
      THEN <<j>> \o SuccessfulRequestsFrom(j + 1)
      ELSE SuccessfulRequestsFrom(j + 1)

ChunkPayloads ==
    LET succ == SuccessfulRequestsFrom(1)
    IN [k \in 1..Len(succ) |-> AudioBlock(succ[k], requests_made[succ[k]].size)]

RECURSIVE SumOfPayloadLengths(_)
SumOfPayloadLengths(ps) ==
    IF ps = <<>> THEN 0 ELSE Head(ps).n + SumOfPayloadLengths(Tail(ps))

\* C11: when the synthesis of a text of several chunks succeeds, the bytes
\* returned are the payloads of the chunks, one per chunk, concatenated in
\* chunk order, and their length is the sum of the payloads' lengths.
C11_Concatenation ==
    (VoiceDone /\ gv_result.returned /\ Len(gv_chunks) >= 2) =>
        /\ Len(ChunkPayloads) = Len(gv_chunks)
        /\ gv_result.audio = ChunkPayloads
        /\ BytesLen(gv_result.audio) = SumOfPayloadLengths(ChunkPayloads)

\* three chunks answered with 100, 5000 and 100 bytes, the second one after
\* a failed attempt: 5200 bytes are returned
C11_Witness ==
    /\ VoiceDone /\ gv_result.returned
    /\ Len(gv_chunks) = 3
    /\ Len(requests_made) = 4
    /\ gv_result.audio = <<AudioBlock(1, 100), AudioBlock(3, 5000), AudioBlock(4, 100)>>
    /\ BytesLen(gv_result.audio) = 5200

\* the texts submitted, one per _generate_single_chunk call: the payload of
\* request j opens a new text when j is the first request or follows a
\* request that succeeded (a retry follows a failure)
RECURSIVE SubmittedTextsFrom(_)
SubmittedTextsFrom(j) ==
    IF j > Len(payloads) THEN <<>>
    ELSE IF j = 1 \/ IsSuccess(requests_made[j - 1])
      THEN <<payloads[j]>> \o SubmittedTextsFrom(j + 1)
      ELSE SubmittedTextsFrom(j + 1)

SubmittedTexts == SubmittedTextsFrom(1)

\* the texts the claim expects generate_voice_from_text to submit
ClaimedTexts ==
    IF IsBlank(gv_text) \/ ~api_key THEN <<>>
    ELSE LET normalized == EnsureSentenceEndings(gv_text)
         IN IF StrLen(normalized) <= 1500 THEN <<normalized>> ELSE ck_result

IsPrefix(s, t) == Len(s) <= Len(t) /\ s = SubSeq(t, 1, Len(s))

\* C22: generate_voice_from_text submits no text when the input is blank
\* (and returns zero-length bytes without a request), the whole normalized
\* text when it has at most 1500 characters, and otherwise the chunks in
\* chunk order; a retry resends the text of the failed request, and the text
\* of chunk i+1 is first sent only after a request for chunk i succeeded.
C22_SubmittedTexts ==
    /\ Len(payloads) = Len(requests_made)
    /\ \A j \in 2..Len(payloads) :
          ~IsSuccess(requests_made[j - 1]) => payloads[j] = payloads[j - 1]
    /\ IsPrefix(SubmittedTexts, ClaimedTexts)
    /\ (VoiceDone /\ gv_result.returned) => SubmittedTexts = ClaimedTexts
    /\ (VoiceDone /\ IsBlank(gv_text)) =>
          /\ gv_result = VoiceReturns(<<>>)
          /\ payloads = <<>>

\* a text of two different chunks, the first one sent twice because its
\* first request got 99 bytes
C22_Witness ==
    /\ VoiceDone /\ gv_result.returned
    /\ Len(gv_chunks) = 2 /\ gv_chunks[1] # gv_chunks[2]
    /\ payloads = <<gv_chunks[1], gv_chunks[1], gv_chunks[2]>>
    /\ ~IsSuccess(requests_made[1])

\* C26 as claimed: the chunks of a long text are synthesized one after the
\* other, and one call of generate_voice_from_text creates exactly one client
\* session, however many chunks it sends.
C26_OneSessionPerText ==
    /\ syn_pc # "idle" => gv_pc \in {"single", "loop"}
    /\ (VoiceDone /\ payloads # <<>>) => sessions_created = 1

(***************************************************************************)
(*                       Claims: script generation                         *)
(***************************************************************************)
ScriptDone == gs_pc = "done"

GenerationFailed == generations # <<>> /\ ~generations[1].ok

GenerateCalls == SelectSeq(external_calls, LAMBDA c : c.service = "generate")

\* C12: when the generation call fails, generate_product_script does not
\* raise: it returns a dictionary with success false and the error's text
\* under "error", and it has made exactly one generation call (no retry).
C12_FailureIsReturned ==
    /\ Len(generations) <= 1
    /\ Len(GenerateCalls) = Len(generations)
    /\ GenerationFailed =>
          /\ ScriptDone
          /\ script_result.returned /\ script_result.raised = ""
          /\ ~script_result.success
          /\ script_result.has_error
          /\ script_result.error = generations[1].error
          /\ Len(GenerateCalls) = 1

\* the generation call has failed, the dictionary has been returned and the
\* handler has answered
C12_Witness ==
    /\ GenerationFailed
    /\ ScriptDone /\ script_result.returned /\ ~script_result.success
    /\ script_result.error = <<Run("a", 7)>>
    /\ fp_pc = "done"

\* C13: a dictionary returned by generate_product_script has one of two
\* shapes: success true with the normalized generated text under "script"
\* and no "error"; or success false with an "error" and no script value.
C13_ScriptOrError ==
    (ScriptDone /\ script_result.returned) =>
        \/ /\ script_result.success
           /\ script_result.has_script
           /\ script_result.script = CleanScriptOutput(generations[1].text)
           /\ ~script_result.has_error
        \/ /\ ~script_result.success
           /\ script_result.has_error
           /\ ~script_result.has_script

\* C24: the script returned for a generated text has no newline, no two
\* whitespace characters in a row, no whitespace at either end, no "*", and
\* no whitespace directly before ".", ",", "!" or "?"; and normalizing it
\* again leaves it unchanged.
C24_CleanScript ==
    (ScriptDone /\ script_result.success) =>
        LET out == script_result.script
        IN /\ IsCanonical(out)
           /\ \A i \in 1..Len(out) :
                 /\ out[i].c # "\n"
                 /\ out[i].c # "*"
                 /\ IsWhitespaceRun(out[i]) =>
                       /\ out[i].n = 1
                       /\ i # 1 /\ i # Len(out)
                       /\ ~IsPunctuationRun(out[i + 1])
           /\ CleanScriptOutput(out) = out

\* "*a", a blank, a newline and "." give "a."
C24_Witness ==
    /\ ScriptDone /\ script_result.success
    /\ generations[1].text = <<Run("*", 1), Run("a", 1), Space, Run("\n", 1)>>
                                \o <<Run(".", 1)>>
    /\ script_result.script = <<Run("a", 1), Run(".", 1)>>

(***************************************************************************)
(*                       Claims: the request handler                       *)
(***************************************************************************)
HandlerDone == fp_pc = "done"

SpeakCalls == SelectSeq(external_calls, LAMBDA c : c.service = "speak")

C15_EveryCallTimed ==
    \A i \in 1..Len(external_calls) :
        /\ external_calls[i].explicit
        /\ external_calls[i].connect > 0
        /\ external_calls[i].read > 0

IsUnwrappable(p) ==
    /\ ~p.session.present
    /\ p.domEvents # <<>>
    /\ (~p.metadata.wellformed \/ \E i \in 1..Len(p.domEvents) : ~p.domEvents[i].wellformed)

\* C17: when the legacy events cannot be wrapped into a RecordingSession,
\* the handler does not abort: the session is None, script generation runs
\* without the context builder and reports dom_context_used false, and the
\* request fails only if the generation itself fails.
C17_UnwrappableEventsDropped ==
    (IsUnwrappable(payload) /\ fp_pc # "idle") =>
        /\ fp_session = NoSession
        /\ events = <<>> /\ rag_pc = "idle"
        /\ ~(HandlerDone /\ gs_pc = "idle")
        /\ (ScriptDone /\ script_result.success) => ~script_result.dom_context_used
        /\ HandlerDone =>
              /\ fp_outcomes[1].kind = "failure" => GenerationFailed
              /\ fp_outcomes[1].kind = "success" => ~fp_outcomes[1].dom_context_used

\* the request with a malformed legacy event is answered with a success
\* response, an audio file and dom_context_used false
C17_Witness ==
    /\ IsUnwrappable(payload)
    /\ \E i \in 1..Len(payload.domEvents) : ~payload.domEvents[i].wellformed
    /\ HandlerDone
    /\ fp_outcomes[1].kind = "success"
    /\ ~fp_outcomes[1].dom_context_used
    /\ Len(files_written) = 1
\* position of a network call in the order of the stages
StageOf(call) ==
    CASE call.service = "generate" -> 1
      [] call.service = "probe" -> 2
      [] call.service = "speak" -> 3

ProbeCalls == SelectSeq(external_calls, LAMBDA c : c.service = "probe")

\* C29: full_process runs its stages in sequence: the probe is issued only
\* after script generation has returned success true, synthesis is called
\* and its requests are sent only after a positive probe, and the audio file
\* is written only after the synthesis has returned; when script generation
\* fails there is no probe, no synthesis request and no file.
C29_StagesInSequence ==
    /\ \A i, j \in 1..Len(external_calls) :
          i < j => StageOf(external_calls[i]) <= StageOf(external_calls[j])
    /\ Len(ProbeCalls) = (IF probe_result = "none" THEN 0 ELSE 1)
    /\ probe_result # "none" =>
          (ScriptDone /\ script_result.returned /\ script_result.success)
    /\ (gv_pc # "idle" \/ SpeakCalls # <<>>) => probe_result = "reachable"
    /\ files_written # <<>> =>
          (VoiceDone /\ gv_result.returned /\ syn_pc = "idle" /\ Len(files_written) = 1)
    /\ (ScriptDone /\ ~(script_result.returned /\ script_result.success)) =>
          /\ ProbeCalls = <<>> /\ SpeakCalls = <<>>
          /\ gv_pc = "idle"
          /\ files_written = <<>>

\* a request served through all the stages: one generation call, one probe,
\* two synthesis requests, one file
C29_Witness ==
    /\ HandlerDone
    /\ Len(external_calls) = 4
    /\ external_calls[1].service = "generate"
    /\ external_calls[2].service = "probe"
    /\ external_calls[3].service = "speak" /\ external_calls[4].service = "speak"
    /\ Len(files_written) = 1

\* C30 as claimed: in a success response audio_generation_failed is true
\* exactly when processed_audio_filename is null, whatever the probe result,
\* the outcome of the synthesis and the generated script, a blank one
\* included.
C30_FallbackIffNoFile ==
    (HandlerDone /\ fp_outcomes[1].kind = "success") =>
        (fp_outcomes[1].audio_generation_failed
            <=> fp_outcomes[1].processed_audio_filename.none)

\* C31 as claimed: when script generation was given a recording session (the
\* request's own or the legacy events wrapped), the session_id of the success
\* response and the session id in the name of the audio file are that
\* session's sessionId.
C31_SessionIdOfSession ==
    (HandlerDone /\ fp_outcomes[1].kind = "success" /\ fp_session.present) =>
        /\ fp_outcomes[1].session_id = fp_session.sessionId
        /\ ~fp_outcomes[1].processed_audio_filename.none =>
              fp_outcomes[1].processed_audio_filename.session_id = fp_session.sessionId

\* the last _generate_single_chunk call of a chunked synthesis has exhausted
\* its attempts and raised
ChunkExhausted ==
    /\ Len(gv_chunks) >= 2
    /\ syn_result.raised # ""
    /\ gv_pc = "done" \/ (gv_pc = "loop" /\ syn_pc = "raised")

\* C33: when the synthesis of chunk i fails after its three attempts,
\* generate_voice_from_text raises and returns no bytes (the audio of the
\* chunks before i is not returned), no request is made for a later chunk,
\* and full_process writes no audio file.
C33_NoPartialAudio ==
    ChunkExhausted =>
        /\ Len(SubmittedTexts) = gv_i
        /\ SubmittedTexts = SubSeq(gv_chunks, 1, gv_i)
        /\ Len(SuccessfulRequestsFrom(1)) = gv_i - 1
        /\ Len(all_audio) = gv_i - 1
        /\ files_written = <<>>
        /\ VoiceDone =>
              /\ ~gv_result.returned
              /\ gv_result.raised = syn_result.raised
              /\ gv_result.audio = <<>>
              /\ audio_bytes = NoBytes
        /\ fp_pc \in {"save", "done"} => audio_generation_failed
        /\ HandlerDone =>
              /\ fp_outcomes[1].kind = "success"
              /\ fp_outcomes[1].processed_audio_filename.none
              /\ fp_outcomes[1].audio_size_bytes = 0

\* the first chunk got 5000 bytes, the second one failed three times: the
\* response names no file
C33_Witness ==
    /\ HandlerDone
    /\ ChunkExhausted
    /\ gv_i = 2
    /\ all_audio = <<AudioBlock(1, 5000)>>
    /\ Len(requests_made) = 4
    /\ fp_outcomes[1].audio_generation_failed
    /\ files_written = <<>>

\* C34: in a success response processed_audio_filename is non-null exactly
\* when an audio file was written during the request, which is exactly when
\* audio_size_bytes > 0; and audio_generation_failed true implies a null
\* processed_audio_filename.
C34_FilenameIffFileIffSize ==
    (HandlerDone /\ fp_outcomes[1].kind = "success") =>
        LET response == fp_outcomes[1]
        IN /\ ~response.processed_audio_filename.none <=> files_written # <<>>
           /\ files_written # <<>> <=> response.audio_size_bytes > 0
           /\ files_written # <<>> =>
                 /\ Len(files_written) = 1
                 /\ files_written[1].name = response.processed_audio_filename
                 /\ files_written[1].size = response.audio_size_bytes
           /\ response.audio_generation_failed =>
                 response.processed_audio_filename.none

\* one request answered with 100 bytes: a file of 100 bytes, named in the
\* response
C34_Witness ==
    /\ HandlerDone /\ fp_outcomes[1].kind = "success"
    /\ Len(requests_made) = 1
    /\ Len(files_written) = 1
    /\ ~fp_outcomes[1].processed_audio_filename.none
    /\ fp_outcomes[1].audio_size_bytes = 100
    /\ ~fp_outcomes[1].audio_generation_failed

\* C36 as claimed: every client session created by the speech-synthesis
\* module is closed before the function that created it returns or raises:
\* whenever no _generate_single_chunk call is under way (the probe is one
\* step), as many sessions have been closed as were created.
C36_EverySessionClosed ==
    syn_pc \in {"idle", "returned", "raised"} => session_closes = sessions_created

=============================================================================
